---- MODULE Spec2Model ----
(***************************************************************************)
(* A verification model of the embodied_datakit compilation engine:        *)
(*   - Compiler.compile          (src/embodied_datakit/compiler.py)        *)
(*   - RLDSInvariantValidator    (validators/structural.py)                *)
(*   - ValidationReport          (validators/base.py)                      *)
(*   - LeRobotV3Writer           (writers/lerobot_v3/writer.py)            *)
(*   - DatasetFinalizer          (writers/finalize.py)                     *)
(*   - RunManifest               (manifest.py)                             *)
(*                                                                         *)
(* Three specifications share the module's variables:                      *)
(*   Spec        one Compiler.compile run over an episode stream           *)
(*   SpecWriter  a LeRobotV3Writer driven by begin/write_episode/finalize  *)
(*   SpecVerify  DatasetFinalizer.verify_offsets applied to index tables   *)
(***************************************************************************)
EXTENDS Integers, Sequences, FiniteSets, TLC

\* ---------------------------------------------------------------- bounds
MaxEpisodes == 2          \* episodes the adapter's stream yields at most
MaxSteps == 2             \* steps per streamed episode at most

\* ------------------------------------------------------------ data model
\* Step (schema/step.py): the fields the compiler, the structural validator
\* and the writer read.  action is None or an array.
None == "None"
Array == "ndarray"

Steps(t) == [is_first : BOOLEAN, is_last : BOOLEAN, is_terminal : {t},
             action : {None, Array}]

\* The step lists of the streamed episodes: every combination of is_first,
\* is_last and action per step; is_terminal is set on all steps of an episode
\* or on none.
StepSeqs == UNION {[1..n -> Steps(t)] : n \in 0..MaxSteps, t \in BOOLEAN}

\* Episode.__post_init__: an Episode can be constructed when it is empty,
\* when it is flagged invalid, or when its first step is is_first and its
\* last step is is_last.
PostInitOK(steps, invalid) ==
    \/ steps = <<>>
    \/ invalid
    \/ steps[1].is_first /\ steps[Len(steps)].is_last

\* The episodes an adapter can hand to the compiler.
Episodes == {e \in [steps : StepSeqs, invalid : BOOLEAN] :
                PostInitOK(e.steps, e.invalid)}

NoEpisode == [steps |-> <<>>, invalid |-> FALSE]

\* Severity (validators/base.py)
ERROR == "ERROR"
WARN == "WARN"
INFO == "INFO"
Severity == {ERROR, WARN, INFO}

Finding(sev, msg, idx) == [severity |-> sev, message |-> msg, step_index |-> idx]

\* ------------------------------------------------- RLDSInvariantValidator
\* validators/structural.py: the findings for the steps strictly between the
\* first and the last one (for i, step in enumerate(steps[1:-1], start=1)),
\* 0-based step index i is steps[i + 1] here.
RECURSIVE MiddleFindings(_, _)
MiddleFindings(steps, i) ==
    IF i > Len(steps) - 2 THEN <<>>
    ELSE (IF steps[i + 1].is_first
            THEN <<Finding(ERROR, "Only first step should have is_first=True", i)>>
            ELSE <<>>)
         \o (IF steps[i + 1].is_last
            THEN <<Finding(ERROR, "Only last step should have is_last=True", i)>>
            ELSE <<>>)
         \o MiddleFindings(steps, i + 1)

\* "terminal implies last": for i, step in enumerate(steps)
RECURSIVE TerminalFindings(_, _)
TerminalFindings(steps, i) ==
    IF i > Len(steps) - 1 THEN <<>>
    ELSE (IF steps[i + 1].is_terminal /\ ~steps[i + 1].is_last
            THEN <<Finding(WARN, "Terminal step is not marked as last", i)>>
            ELSE <<>>)
         \o TerminalFindings(steps, i + 1)

\* a validator without the check of the last step's is_last
RLDSValidateNoLastCheck(steps) ==
    IF steps = <<>>
    THEN <<Finding(ERROR, "Episode has no steps", -1)>>
    ELSE (IF ~steps[1].is_first
            THEN <<Finding(ERROR, "First step must have is_first=True", 0)>>
            ELSE <<>>)
         \o MiddleFindings(steps, 1)
         \o TerminalFindings(steps, 0)

\* RLDSInvariantValidator.validate_episode
RLDSValidate(steps) ==
    IF steps = <<>>
    THEN <<Finding(ERROR, "Episode has no steps", -1)>>
    ELSE (IF ~steps[1].is_first
            THEN <<Finding(ERROR, "First step must have is_first=True", 0)>>
            ELSE <<>>)
         \o (IF ~steps[Len(steps)].is_last
            THEN <<Finding(ERROR, "Last step must have is_last=True", Len(steps) - 1)>>
            ELSE <<>>)
         \o (IF steps[Len(steps)].action # None
            THEN <<Finding(WARN, "Last step should have action=None (RLDS convention)",
                           Len(steps) - 1)>>
            ELSE <<>>)
         \o MiddleFindings(steps, 1)
         \o TerminalFindings(steps, 0)

\* What the other registered validators may return.  The compiler reads
\* findings only through their severities, so one finding list per set of
\* severities stands for all lists.
FindingsOf(sevs) ==
    (IF ERROR \in sevs THEN <<Finding(ERROR, "other", -1)>> ELSE <<>>)
    \o (IF WARN \in sevs THEN <<Finding(WARN, "other", -1)>> ELSE <<>>)
    \o (IF INFO \in sevs THEN <<Finding(INFO, "other", -1)>> ELSE <<>>)

OtherFindings == {FindingsOf(sevs) : sevs \in SUBSET Severity}

\* ------------------------------------------------------------------ state
VARIABLES
    \* Compiler.compile
    pc,                 \* position inside compile
    config,             \* Config: validation.fail_fast
    validators,         \* Compiler.validators, in registration order
    writer,             \* Compiler.writer (BaseWriter state); present=FALSE is None
    spec_pipeline,      \* DatasetSpec.transform_pipeline
    episode,            \* the episode in flight
    findings,           \* merged findings of the episode in flight
    report,             \* ValidationReport counters
    episodes_written,
    episodes_rejected,
    episodes_invalid,
    result,             \* the returned CompileResult counters, or NoResult
    manifest,           \* the run's RunManifest
    \* observation of the run (history, not program state)
    trace,              \* collaborator calls made so far, in order
    pulled,             \* episodes pulled from adapter.iter_episodes
    cur,                \* about the episode pulled last
    seen,               \* episodes validated so far, by severity class
    first_error         \* Len(trace) when the first ERROR episode was validated, or 0

compilerVars == <<pc, config, validators, writer, spec_pipeline, episode, findings,
                  report, episodes_written, episodes_rejected, episodes_invalid,
                  result, manifest, trace, pulled, cur, seen, first_error>>

\* Compiler.transforms: the chain registered with add_transform
Transforms == <<"IdentityTransform", "IdentityTransform">>

\* TransformChain.names
ChainNames == [i \in 1..Len(Transforms) |-> Transforms[i]]

\* IdentityTransform.transform_episode
IdentityTransform(e) == e

RECURSIVE ApplyFrom(_, _)
ApplyFrom(e, i) ==
    IF i > Len(Transforms) THEN e ELSE ApplyFrom(IdentityTransform(e), i + 1)

\* TransformChain.transform_episode: each transform gets its predecessor's output
TransformEpisode(e) == ApplyFrom(e, 1)

RLDS == "rlds_invariants"
Other == "other"
ValidatorSets == {<<>>, <<Other>>, <<RLDS>>, <<RLDS, Other>>}

\* Compiler._validate_episode: findings.extend(v.validate_episode(...)) for
\* each validator in order; other is what the non-structural validator returns.
RECURSIVE ValidateFrom(_, _, _, _)
ValidateFrom(vs, i, e, other) ==
    IF i > Len(vs) THEN <<>>
    ELSE (IF vs[i] = RLDS THEN RLDSValidate(e.steps) ELSE other)
         \o ValidateFrom(vs, i + 1, e, other)

ValidateEpisode(vs, e, other) == ValidateFrom(vs, 1, e, other)

\* mutant: only the first finding is examined
HasErrorFirstOnly(fs) == fs # <<>> /\ fs[1].severity = ERROR

\* any(f.severity == Severity.ERROR for f in findings)
HasError(fs) == \E i \in 1..Len(fs) : fs[i].severity = ERROR

\* any(f.severity == Severity.WARN for f in findings)
HasWarn(fs) == \E i \in 1..Len(fs) : fs[i].severity = WARN

\* mutant: a warning counts the episode as invalid even beside an error
AddEpisodeResultWarnAlways(r, fs) ==
    [total_episodes   |-> r.total_episodes + 1,
     error_episodes   |-> r.error_episodes + (IF HasError(fs) THEN 1 ELSE 0),
     invalid_episodes |-> r.invalid_episodes + (IF HasWarn(fs) THEN 1 ELSE 0),
     valid_episodes   |-> r.valid_episodes
                            + (IF ~HasError(fs) /\ ~HasWarn(fs) THEN 1 ELSE 0)]

\* ValidationReport.add_episode_result (the counters)
AddEpisodeResult(r, fs) ==
    [total_episodes   |-> r.total_episodes + 1,
     error_episodes   |-> r.error_episodes + (IF HasError(fs) THEN 1 ELSE 0),
     invalid_episodes |-> r.invalid_episodes
                            + (IF ~HasError(fs) /\ HasWarn(fs) THEN 1 ELSE 0),
     valid_episodes   |-> r.valid_episodes
                            + (IF ~HasError(fs) /\ ~HasWarn(fs) THEN 1 ELSE 0)]

NewReport == [total_episodes |-> 0, error_episodes |-> 0,
              invalid_episodes |-> 0, valid_episodes |-> 0]

NoResult == [returned |-> FALSE, episodes_written |-> 0, episodes_rejected |-> 0,
             episodes_invalid |-> 0, report |-> NewReport]

\* RunManifest as RunManifest.create leaves it
NewManifest == [status |-> "running", error |-> ""]

NewWriter(present) == [present |-> present, begun |-> FALSE, episode_count |-> 0,
                       finalize_calls |-> 0, finalized_count |-> 0]

NoCur == [sev |-> {}, invalid0 |-> FALSE, writes |-> 0, write_invalid |-> FALSE,
          validated |-> FALSE]

NoSeen == [error |-> 0, warn |-> 0, clean |-> 0]

Call(name) == trace \o <<name>>

Repeat(name, n) == [i \in 1..n |-> name]

VARIABLES
    \* LeRobotV3Writer
    wstate,             \* "new", "begun" or "finalized"
    episodes_per_chunk,
    rows_per_parquet,
    episode_count,      \* BaseWriter._episode_count
    tasks,              \* _tasks: set of [task, task_index]
    episode_records,    \* _episode_records
    step_buffer,        \* _step_buffer
    total_steps,        \* _total_steps
    chunk_idx,          \* _chunk_idx
    parquet_idx,        \* _parquet_idx
    data_files,         \* data/chunk-CCC/steps_PPPPP.parquet: set of [path, rows]
    meta_files,         \* meta/info.json, tasks.jsonl, episodes/episodes.parquet
    written_lengths     \* lengths of the episodes passed to write_episode (history)

writerVars == <<wstate, episodes_per_chunk, rows_per_parquet, episode_count, tasks,
                episode_records, step_buffer, total_steps, chunk_idx, parquet_idx,
                data_files, meta_files, written_lengths>>

VARIABLES
    \* DatasetFinalizer.verify_offsets
    index_exists,       \* layout.episodes_index_path.exists()
    index_table,        \* rows of the index table: [parquet_row_start, parquet_row_end]
    v_episodes_count,   \* argument episodes_count
    v_expected_steps,   \* argument expected_steps
    v_errors,           \* the returned violation list
    v_pc                \* "call" before, "returned" after

verifyVars == <<index_exists, index_table, v_episodes_count, v_expected_steps,
                v_errors, v_pc>>

VARIABLES
    \* DatasetFinalizer.finalize and the RunManifest it seals
    root_files,         \* files under the dataset root besides meta/episodes.parquet
    run_manifest,       \* the RunManifest object
    manifest_file,      \* meta/manifest.json as last saved
    checksums_file,     \* meta/checksums.json as last written
    f_pc,               \* position of the finalize call
    status_log,         \* every value assigned to manifest.status (history)
    m_calls             \* number of calls made on the manifest (history)

finalizerVars == <<root_files, run_manifest, manifest_file, checksums_file, f_pc,
                   status_log, m_calls>>

VARIABLES
    \* TaskCatalog
    catalog,            \* [tasks: _tasks, reverse: _reverse, next_id: _next_id]
    add_log             \* the add calls made: [task, id returned] (history)

catalogVars == <<catalog, add_log>>

VARIABLES
    \* LeRobotV3Writer._stats, a StatsAccumulator
    stats_count,        \* StatsAccumulator._count: key -> number of values added
    stats_added,        \* the (key, value) pairs passed to StatsAccumulator.add (history)
    stats_steps         \* number of steps passed to _update_stats (history)

statsVars == <<stats_count, stats_added, stats_steps>>

VARIABLES
    \* QueryEngine
    q_table,            \* the index table the engine loads: sequence of records
    q_filter,           \* the filter argument: [given, fields]
    q_result,           \* the records the last query returned
    q_prev,             \* the records the query before it returned (history)
    q_pc                \* "call", "returned" or "refined"

queryVars == <<q_table, q_filter, q_result, q_prev, q_pc>>

VARIABLES
    \* SliceMaterializer
    s_mode,             \* "view" or "copy"
    s_parent_build_id,  \* argument parent_build_id
    s_source_files,     \* shard files under the parent's data/ and videos/
    s_source_before,    \* the parent's shard files before the call (history)
    s_out_files,        \* shard files under the output root's data/ and videos/
    s_out_index,        \* output meta/episodes.parquet
    s_manifest,         \* output slice_manifest.json
    s_pc                \* "call", "returned" or "raised"

slicerVars == <<s_mode, s_parent_build_id, s_source_files, s_source_before,
                s_out_files, s_out_index, s_manifest, s_pc>>

VARIABLES
    \* ValidationRunner
    r_config,           \* [mode, fail_on_warn]
    r_outputs,          \* what each registered validator returns for the episode
    r_result,           \* how validate_episode ended, and the ValidationResult
    r_report            \* self.report

runnerVars == <<r_config, r_outputs, r_result, r_report>>

VARIABLES
    \* TimestampValidator and ActionSanityValidator
    dq_episode,         \* the steps of the episode handed to the validator
    dq_rates,           \* [spec: spec.control_rate_hz, validator: self.control_rate_hz]
    dq_outcome          \* which validate_episode ran and how it ended

qualityVars == <<dq_episode, dq_rates, dq_outcome>>

VARIABLES
    \* a compile run with a chain of TaskTextTransform and SelectCameraTransform
    p_chain,            \* self.transforms.transforms
    p_pc,               \* "start", "loop", "done" or "aborted" (a transform raised)
    p_pipeline,         \* spec.transform_pipeline
    p_catalog,          \* spec.task_catalog
    p_tasks,            \* the writer's _tasks
    p_tasks_jsonl,      \* meta/tasks.jsonl
    p_pulled,           \* episodes taken from the adapter
    p_last              \* the last loop iteration: the episode in and out, and the
                        \* task index of the writer's episode record

pipelineVars == <<p_chain, p_pc, p_pipeline, p_catalog, p_tasks, p_tasks_jsonl, p_pulled,
                  p_last>>

VARIABLES
    \* to_dict / from_dict of Step, Episode and DatasetSpec
    rt_original,        \* [kind, v]: the object to_dict was called on
    rt_dict,            \* [kind, v]: the dict to_dict returned
    rt_restored         \* [kind, v]: the object from_dict built from it

roundTripVars == <<rt_original, rt_dict, rt_restored>>

VARIABLES
    \* StatsAccumulator
    acc,                \* [count, sum, sum_sq, min, max]: the five dicts by key
    acc_log,            \* the add calls made, in order
    acc_stats           \* what the last compute returned

accumulatorVars == <<acc, acc_log, acc_stats>>

VARIABLES
    \* deterministic_split
    sp_md5,             \* the bucket part of md5(f"{seed}:{episode_id}"), a fixed table
    sp_log              \* the calls made, in order, with what each returned

splitVars == <<sp_md5, sp_log>>

VARIABLES
    \* VideoShardWriter
    vs_max,             \* max_frames_per_shard
    vs_shard_idx,       \* _shard_idx
    vs_encoder,         \* _encoder: <<>> for None, <<i>> encoding shard i
    vs_count,           \* _shard_frame_count
    vs_offsets,         \* _episode_offsets, one entry per call in call order
    vs_files,           \* the shard files: vs_files[i + 1] holds the frames of shard i
    vs_started,         \* the shard paths an encoder was started on (history)
    vs_finished         \* number of finish calls (history)

videoVars == <<vs_max, vs_shard_idx, vs_encoder, vs_count, vs_offsets, vs_files, vs_started, vs_finished>>

VARIABLES
    \* ResampleTransform.transform_episode
    rs_steps,           \* the steps of the episode passed in
    rs_dt,              \* 1 / target_rate_hz, in ticks of 0.1 s
    rs_result,          \* the steps of the returned episode
    rs_pc               \* "call" before, "returned" after

resampleVars == <<rs_steps, rs_dt, rs_result, rs_pc>>

VARIABLES
    \* a `with writer:` block around a LeRobotV3Writer
    cx_pc               \* "before", "inside" or "left" the block

contextVars == <<cx_pc>>

\* the components outside the compile loop, the writer and verify_offsets
libraryVars == <<finalizerVars, catalogVars, statsVars, queryVars, slicerVars,
                 runnerVars, qualityVars, pipelineVars, roundTripVars, accumulatorVars,
                 splitVars, videoVars, resampleVars, contextVars>>

vars == <<compilerVars, writerVars, verifyVars, libraryVars>>

\* what a step of one component leaves alone
exceptFinalizer == <<compilerVars, writerVars, verifyVars, catalogVars, statsVars,
                     queryVars, slicerVars, runnerVars, qualityVars, pipelineVars,
                     roundTripVars, accumulatorVars, splitVars, videoVars,
                     resampleVars, contextVars>>
exceptCatalog == <<compilerVars, writerVars, verifyVars, finalizerVars, statsVars,
                   queryVars, slicerVars, runnerVars, qualityVars, pipelineVars,
                   roundTripVars, accumulatorVars, splitVars, videoVars, resampleVars,
                   contextVars>>
exceptStats == <<compilerVars, writerVars, verifyVars, finalizerVars, catalogVars,
                 queryVars, slicerVars, runnerVars, qualityVars, pipelineVars,
                 roundTripVars, accumulatorVars, splitVars, videoVars, resampleVars,
                 contextVars>>
exceptQuery == <<compilerVars, writerVars, verifyVars, finalizerVars, catalogVars,
                 statsVars, slicerVars, runnerVars, qualityVars, pipelineVars,
                 roundTripVars, accumulatorVars, splitVars, videoVars, resampleVars,
                 contextVars>>
\* a slicer step runs the query engine
exceptSlicer == <<compilerVars, writerVars, verifyVars, finalizerVars, catalogVars,
                  statsVars, runnerVars, qualityVars, pipelineVars, roundTripVars,
                  accumulatorVars, splitVars, videoVars, resampleVars, contextVars>>
exceptRunner == <<compilerVars, writerVars, verifyVars, finalizerVars, catalogVars,
                  statsVars, queryVars, slicerVars, qualityVars, pipelineVars,
                  roundTripVars, accumulatorVars, splitVars, videoVars, resampleVars,
                  contextVars>>
exceptQuality == <<compilerVars, writerVars, verifyVars, finalizerVars, catalogVars,
                   statsVars, queryVars, slicerVars, runnerVars, pipelineVars,
                   roundTripVars, accumulatorVars, splitVars, videoVars, resampleVars,
                   contextVars>>
exceptPipeline == <<compilerVars, writerVars, verifyVars, finalizerVars, catalogVars,
                    statsVars, queryVars, slicerVars, runnerVars, qualityVars,
                    roundTripVars, accumulatorVars, splitVars, videoVars, resampleVars,
                    contextVars>>
exceptRoundTrip == <<compilerVars, writerVars, verifyVars, finalizerVars, catalogVars,
                     statsVars, queryVars, slicerVars, runnerVars, qualityVars,
                     pipelineVars, accumulatorVars, splitVars, videoVars, resampleVars,
                     contextVars>>
exceptAccumulator == <<compilerVars, writerVars, verifyVars, finalizerVars,
                       catalogVars, statsVars, queryVars, slicerVars, runnerVars,
                       qualityVars, pipelineVars, roundTripVars, splitVars, videoVars,
                       resampleVars, contextVars>>
exceptSplit == <<compilerVars, writerVars, verifyVars, finalizerVars, catalogVars,
                 statsVars, queryVars, slicerVars, runnerVars, qualityVars,
                 pipelineVars, roundTripVars, accumulatorVars, videoVars, resampleVars,
                 contextVars>>
exceptVideo == <<compilerVars, writerVars, verifyVars, finalizerVars, catalogVars,
                 statsVars, queryVars, slicerVars, runnerVars, qualityVars,
                 pipelineVars, roundTripVars, accumulatorVars, splitVars, resampleVars,
                 contextVars>>
exceptResample == <<compilerVars, writerVars, verifyVars, finalizerVars, catalogVars,
                    statsVars, queryVars, slicerVars, runnerVars, qualityVars,
                    pipelineVars, roundTripVars, accumulatorVars, splitVars, videoVars,
                    contextVars>>
exceptContext == <<compilerVars, writerVars, verifyVars, finalizerVars, catalogVars,
                   statsVars, queryVars, slicerVars, runnerVars, qualityVars,
                   pipelineVars, roundTripVars, accumulatorVars, splitVars, videoVars,
                   resampleVars>>

\* ------------------------------------------------------- Compiler.compile
CompilerIdle ==
    /\ pc = "idle"
    /\ config = [fail_fast |-> FALSE]
    /\ validators = <<>>
    /\ writer = NewWriter(FALSE)
    /\ spec_pipeline = <<>>
    /\ episode = NoEpisode
    /\ findings = <<>>
    /\ report = NewReport
    /\ episodes_written = 0
    /\ episodes_rejected = 0
    /\ episodes_invalid = 0
    /\ result = NoResult
    /\ manifest = NewManifest
    /\ trace = <<>>
    /\ pulled = 0
    /\ cur = NoCur
    /\ seen = NoSeen
    /\ first_error = 0

\* adapter.probe(); spec.transform_pipeline = self.transforms.names
Probe ==
    /\ pc = "start"
    /\ trace' = Call("probe")
    /\ spec_pipeline' = ChainNames
    /\ pc' = "probed"
    /\ UNCHANGED <<config, validators, writer, episode, findings, report,
                   episodes_written, episodes_rejected, episodes_invalid, result,
                   manifest, pulled, cur, seen, first_error>>
    /\ UNCHANGED <<writerVars, verifyVars, libraryVars>>

\* if self.writer is None: raise ValueError
NoWriter ==
    /\ pc = "probed"
    /\ ~writer.present
    /\ pc' = "raised"
    /\ UNCHANGED <<config, validators, writer, spec_pipeline, episode, findings,
                   report, episodes_written, episodes_rejected, episodes_invalid,
                   result, manifest, trace, pulled, cur, seen, first_error>>
    /\ UNCHANGED <<writerVars, verifyVars, libraryVars>>

\* self.writer.begin(spec, output_dir); the counters start at 0
Begin ==
    /\ pc = "probed"
    /\ writer.present
    /\ writer' = [writer EXCEPT !.begun = TRUE, !.episode_count = 0]
    /\ trace' = Call("begin")
    /\ report' = NewReport
    /\ episodes_written' = 0
    /\ episodes_rejected' = 0
    /\ episodes_invalid' = 0
    /\ pc' = "loop"
    /\ UNCHANGED <<config, validators, spec_pipeline, episode, findings, result,
                   manifest, pulled, cur, seen, first_error>>
    /\ UNCHANGED <<writerVars, verifyVars, libraryVars>>

\* for episode in adapter.iter_episodes(split, selector): the next episode
Pull ==
    /\ pc = "loop"
    /\ pulled < MaxEpisodes
    /\ \E e \in Episodes : episode' = e
    /\ pulled' = pulled + 1
    /\ cur' = NoCur
    /\ findings' = <<>>
    /\ trace' = Call("pull")
    /\ pc' = "pulled"
    /\ UNCHANGED <<config, validators, writer, spec_pipeline, report,
                   episodes_written, episodes_rejected, episodes_invalid, result,
                   manifest, seen, first_error>>
    /\ UNCHANGED <<writerVars, verifyVars, libraryVars>>

\* mutant: the end of the stream skips writer.finalize
ExhaustedSkipsFinalize ==
    /\ pc = "loop"
    /\ pc' = "close"
    /\ UNCHANGED <<config, validators, writer, spec_pipeline, episode, findings,
                   report, episodes_written, episodes_rejected, episodes_invalid,
                   result, manifest, trace, pulled, cur, seen, first_error>>
    /\ UNCHANGED <<writerVars, verifyVars, libraryVars>>

\* the stream is exhausted: the for loop ends
Exhausted ==
    /\ pc = "loop"
    /\ pc' = "finalize"
    /\ UNCHANGED <<config, validators, writer, spec_pipeline, episode, findings,
                   report, episodes_written, episodes_rejected, episodes_invalid,
                   result, manifest, trace, pulled, cur, seen, first_error>>
    /\ UNCHANGED <<writerVars, verifyVars, libraryVars>>

\* episode = self._apply_transforms(episode, spec)
Transform ==
    /\ pc = "pulled"
    /\ episode' = TransformEpisode(episode)
    /\ trace' = trace \o Repeat("transform", Len(Transforms))
    /\ pc' = "transformed"
    /\ UNCHANGED <<config, validators, writer, spec_pipeline, findings, report,
                   episodes_written, episodes_rejected, episodes_invalid, result,
                   manifest, pulled, cur, seen, first_error>>
    /\ UNCHANGED <<writerVars, verifyVars, libraryVars>>

\* findings = self._validate_episode(episode, spec); report.add_episode_result
Validate ==
    /\ pc = "transformed"
    /\ \E other \in (IF \E i \in 1..Len(validators) : validators[i] = Other
                       THEN OtherFindings ELSE {<<>>}) :
          LET fs == ValidateEpisode(validators, episode, other)
              sev == {fs[i].severity : i \in 1..Len(fs)}
              tr == trace \o Repeat("validate", Len(validators))
          IN /\ findings' = fs
             /\ report' = AddEpisodeResult(report, fs)
             /\ trace' = tr
             /\ cur' = [cur EXCEPT !.sev = sev, !.invalid0 = episode.invalid,
                                   !.validated = TRUE]
             /\ seen' = [error |-> seen.error + (IF ERROR \in sev THEN 1 ELSE 0),
                         warn  |-> seen.warn
                                     + (IF ERROR \notin sev /\ WARN \in sev THEN 1 ELSE 0),
                         clean |-> seen.clean
                                     + (IF ERROR \notin sev /\ WARN \notin sev
                                          THEN 1 ELSE 0)]
             /\ first_error' = IF first_error = 0 /\ ERROR \in sev
                                 THEN Len(tr) ELSE first_error
    /\ pc' = "validated"
    /\ UNCHANGED <<config, validators, writer, spec_pipeline, episode,
                   episodes_written, episodes_rejected, episodes_invalid, result,
                   manifest, pulled>>
    /\ UNCHANGED <<writerVars, verifyVars, libraryVars>>

\* mutant: the rejection is not counted
RejectUncounted ==
    /\ pc = "validated"
    /\ HasError(findings)
    /\ ~config.fail_fast
    /\ episode' = NoEpisode
    /\ findings' = <<>>
    /\ pc' = "loop"
    /\ UNCHANGED <<config, validators, writer, spec_pipeline, episodes_rejected,
                   report, episodes_written, episodes_invalid, result, manifest,
                   trace, pulled, cur, seen, first_error>>
    /\ UNCHANGED <<writerVars, verifyVars, libraryVars>>

\* The loop's locals episode and findings are dead once an iteration ends;
\* the model clears them there.
\* if has_error: episodes_rejected += 1; (not fail_fast) continue
Reject ==
    /\ pc = "validated"
    /\ HasError(findings)
    /\ ~config.fail_fast
    /\ episodes_rejected' = episodes_rejected + 1
    /\ episode' = NoEpisode
    /\ findings' = <<>>
    /\ pc' = "loop"
    /\ UNCHANGED <<config, validators, writer, spec_pipeline,
                   report, episodes_written, episodes_invalid, result, manifest,
                   trace, pulled, cur, seen, first_error>>
    /\ UNCHANGED <<writerVars, verifyVars, libraryVars>>

\* mutant: fail-fast continues with the next episode instead of breaking
RejectAbortContinues ==
    /\ pc = "validated"
    /\ HasError(findings)
    /\ config.fail_fast
    /\ episodes_rejected' = episodes_rejected + 1
    /\ episode' = NoEpisode
    /\ findings' = <<>>
    /\ pc' = "loop"
    /\ UNCHANGED <<config, validators, writer, spec_pipeline,
                   report, episodes_written, episodes_invalid, result, manifest,
                   trace, pulled, cur, seen, first_error>>
    /\ UNCHANGED <<writerVars, verifyVars, libraryVars>>

\* if has_error: episodes_rejected += 1; if fail_fast: break
RejectAbort ==
    /\ pc = "validated"
    /\ HasError(findings)
    /\ config.fail_fast
    /\ episodes_rejected' = episodes_rejected + 1
    /\ episode' = NoEpisode
    /\ findings' = <<>>
    /\ pc' = "finalize"
    /\ UNCHANGED <<config, validators, writer, spec_pipeline,
                   report, episodes_written, episodes_invalid, result, manifest,
                   trace, pulled, cur, seen, first_error>>
    /\ UNCHANGED <<writerVars, verifyVars, libraryVars>>

\* mutant: the warning never marks the episode
MarkInvalidNever(e, fs) == e

\* if has_warn: episode.invalid = True
MarkInvalid(e, fs) == IF HasWarn(fs) THEN [e EXCEPT !.invalid = TRUE] ELSE e

\* BaseWriter.write_episode: self._episode_count += 1
BaseWriteEpisode(w) == [w EXCEPT !.episode_count = w.episode_count + 1]

\* no error: mark invalid on a warning, writer.write_episode(episode),
\* episodes_written += 1
Write ==
    /\ pc = "validated"
    /\ ~HasError(findings)
    /\ LET e == MarkInvalid(episode, findings)
       IN cur' = [cur EXCEPT !.writes = cur.writes + 1,
                             !.write_invalid = e.invalid]
    /\ episode' = NoEpisode
    /\ findings' = <<>>
    /\ episodes_invalid' = episodes_invalid + (IF HasWarn(findings) THEN 1 ELSE 0)
    /\ writer' = BaseWriteEpisode(writer)
    /\ trace' = Call("write_episode")
    /\ episodes_written' = episodes_written + 1
    /\ pc' = "loop"
    /\ UNCHANGED <<config, validators, spec_pipeline, report,
                   episodes_rejected, result, manifest, pulled, seen, first_error>>
    /\ UNCHANGED <<writerVars, verifyVars, libraryVars>>

\* artifacts = self.writer.finalize() returns
Finalize ==
    /\ pc = "finalize"
    /\ writer' = [writer EXCEPT !.finalize_calls = writer.finalize_calls + 1,
                                !.finalized_count = writer.episode_count]
    /\ trace' = Call("finalize")
    /\ pc' = "close"
    /\ UNCHANGED <<config, validators, spec_pipeline, episode, findings, report,
                   episodes_written, episodes_rejected, episodes_invalid, result,
                   manifest, pulled, cur, seen, first_error>>
    /\ UNCHANGED <<writerVars, verifyVars, libraryVars>>

\* self.writer.finalize() raises (a shard flush fails): the exception leaves
\* compile, which has no handler and holds no manifest
FinalizeFails ==
    /\ pc = "finalize"
    /\ writer' = [writer EXCEPT !.finalize_calls = writer.finalize_calls + 1]
    /\ trace' = Call("finalize")
    /\ pc' = "finalize_raised"
    /\ UNCHANGED <<config, validators, spec_pipeline, episode, findings, report,
                   episodes_written, episodes_rejected, episodes_invalid, result,
                   manifest, pulled, cur, seen, first_error>>
    /\ UNCHANGED <<writerVars, verifyVars, libraryVars>>

\* CompileResult(...) as compile returns it
CompileResult ==
    [returned |-> TRUE, episodes_written |-> episodes_written,
     episodes_rejected |-> episodes_rejected, episodes_invalid |-> episodes_invalid,
     report |-> report]

\* adapter.close(); return CompileResult(...)
Close ==
    /\ pc = "close"
    /\ trace' = Call("close")
    /\ result' = CompileResult
    /\ pc' = "done"
    /\ UNCHANGED <<config, validators, writer, spec_pipeline, episode, findings,
                   report, episodes_written, episodes_rejected, episodes_invalid,
                   manifest, pulled, cur, seen, first_error>>
    /\ UNCHANGED <<writerVars, verifyVars, libraryVars>>

\* -------------------------------------------------------- LeRobotV3Writer
\* meta/ before finalize: no info.json, tasks.jsonl or episodes.parquet
NoMetaFiles == [info_exists |-> FALSE,
                info |-> [total_episodes |-> 0, total_frames |-> 0, total_tasks |-> 0],
                tasks_exists |-> FALSE, tasks_jsonl |-> <<>>,
                episodes_exists |-> FALSE, episodes |-> <<>>]

\* the writer and the finalizer while a specification does not exercise them
WriterIdle ==
    /\ wstate = "new"
    /\ episodes_per_chunk = 1000
    /\ rows_per_parquet = 10000
    /\ episode_count = 0
    /\ tasks = {}
    /\ episode_records = <<>>
    /\ step_buffer = <<>>
    /\ total_steps = 0
    /\ chunk_idx = 0
    /\ parquet_idx = 0
    /\ data_files = {}
    /\ meta_files = NoMetaFiles
    /\ written_lengths = <<>>

VerifyIdle ==
    /\ index_exists = FALSE
    /\ index_table = <<>>
    /\ v_episodes_count = 0
    /\ v_expected_steps = 0
    /\ v_errors = <<>>
    /\ v_pc = "idle"

\* RunManifest as its dataclass defaults leave it
NewRunManifest == [status |-> "running", error |-> <<>>, artifacts |-> <<>>,
                   episode_count |-> 0, duration_secs |-> 0]

\* a file that does not exist
NoFile == [exists |-> FALSE]

FinalizerIdle ==
    /\ root_files = {}
    /\ run_manifest = NewRunManifest
    /\ manifest_file = NoFile
    /\ checksums_file = NoFile
    /\ f_pc = "idle"
    /\ status_log = <<>>
    /\ m_calls = 0

\* TaskCatalog(): the dataclass defaults
NewCatalog == [tasks |-> <<>>, reverse |-> <<>>, next_id |-> 0]

CatalogIdle ==
    /\ catalog = NewCatalog
    /\ add_log = <<>>

\* StatsAccumulator(): nothing accumulated
StatsIdle ==
    /\ stats_count = <<>>
    /\ stats_added = {}
    /\ stats_steps = 0

\* filter=None
NoFilter == [given |-> FALSE, fields |-> <<>>]

QueryIdle ==
    /\ q_table = <<>>
    /\ q_filter = NoFilter
    /\ q_result = <<>>
    /\ q_prev = <<>>
    /\ q_pc = "idle"

SlicerIdle ==
    /\ s_mode = "view"
    /\ s_parent_build_id = ""
    /\ s_source_files = {}
    /\ s_source_before = {}
    /\ s_out_files = {}
    /\ s_out_index = NoFile
    /\ s_manifest = NoFile
    /\ s_pc = "idle"

\* no ValidationRunner call made
NoRun == [pc |-> "idle", ran |-> 0, findings |-> <<>>, is_valid |-> FALSE,
          is_quarantined |-> FALSE]

RunnerIdle ==
    /\ r_config = [mode |-> "collect", fail_on_warn |-> FALSE]
    /\ r_outputs = <<>>
    /\ r_result = NoRun
    /\ r_report = NewReport

\* no structural validator called
NoOutcome == [validator |-> "none", pc |-> "idle", findings |-> <<>>]

QualityIdle ==
    /\ dq_episode = <<>>
    /\ dq_rates = [spec |-> 10, validator |-> 10]
    /\ dq_outcome = NoOutcome

\* no loop iteration made
PipelineIdle ==
    /\ p_chain = <<>>
    /\ p_pc = "start"
    /\ p_pipeline = <<>>
    /\ p_catalog = NewCatalog
    /\ p_tasks = {}
    /\ p_tasks_jsonl = <<>>
    /\ p_pulled = 0
    /\ p_last = [outcome |-> "none"]

\* nothing serialized
Nothing == [kind |-> "none"]

RoundTripIdle ==
    /\ rt_original = Nothing
    /\ rt_dict = Nothing
    /\ rt_restored = Nothing

\* StatsAccumulator.__init__
NewAccumulator ==
    [count |-> <<>>, sum |-> <<>>, sum_sq |-> <<>>, min |-> <<>>, max |-> <<>>]

AccumulatorIdle ==
    /\ acc = NewAccumulator
    /\ acc_log = <<>>
    /\ acc_stats = <<>>

SplitIdle ==
    /\ sp_md5 = <<>>
    /\ sp_log = <<>>

VideoIdle ==
    /\ vs_max = 0
    /\ vs_shard_idx = 0
    /\ vs_encoder = <<>>
    /\ vs_count = 0
    /\ vs_offsets = <<>>
    /\ vs_files = <<>>
    /\ vs_started = <<>>
    /\ vs_finished = 0

ResampleIdle ==
    /\ rs_steps = <<>>
    /\ rs_dt = 0
    /\ rs_result = <<>>
    /\ rs_pc = "idle"

ContextIdle == cx_pc = "idle"

LibraryIdle ==
    /\ FinalizerIdle
    /\ CatalogIdle
    /\ StatsIdle
    /\ QueryIdle
    /\ SlicerIdle
    /\ RunnerIdle
    /\ QualityIdle
    /\ PipelineIdle
    /\ RoundTripIdle
    /\ AccumulatorIdle
    /\ SplitIdle
    /\ VideoIdle
    /\ ResampleIdle
    /\ ContextIdle

\* One compile run: any fail_fast setting, any validator set, writer set or not
Init ==
    /\ pc = "start"
    /\ config \in [fail_fast : BOOLEAN]
    /\ validators \in ValidatorSets
    /\ \E present \in BOOLEAN : writer = NewWriter(present)
    /\ spec_pipeline = <<>>
    /\ episode = NoEpisode
    /\ findings = <<>>
    /\ report = NewReport
    /\ episodes_written = 0
    /\ episodes_rejected = 0
    /\ episodes_invalid = 0
    /\ result = NoResult
    /\ manifest = NewManifest
    /\ trace = <<>>
    /\ pulled = 0
    /\ cur = NoCur
    /\ seen = NoSeen
    /\ first_error = 0
    /\ WriterIdle
    /\ VerifyIdle
    /\ LibraryIdle

Next ==
    \/ Probe
    \/ NoWriter
    \/ Begin
    \/ Pull
    \/ Exhausted
    \/ Transform
    \/ Validate
    \/ Reject
    \/ RejectAbort
    \/ Write
    \/ Finalize
    \/ FinalizeFails
    \/ Close

Spec == Init /\ [][Next]_vars

\* ===================================================== claims on Spec
Count(seq, x) == Cardinality({i \in 1..Len(seq) : seq[i] = x})

\* the last pulled episode has been dispatched (written or rejected)
Dispatched == cur.validated /\ pc \notin {"pulled", "transformed", "validated"}

\* C1: compile never calls writer.write_episode for an episode whose merged
\* findings contain an ERROR finding, with fail-fast on or off.
C1_NoWriteOnError == cur.writes > 0 => ERROR \notin cur.sev

\* an episode with an ERROR finding went through dispatch and was not written
C1_Witness == Dispatched /\ ERROR \in cur.sev /\ cur.writes = 0 /\ pc = "loop"

\* C2: an episode with a WARN and no ERROR finding is passed to the writer
\* exactly once with invalid = true; an episode with neither is passed to the
\* writer exactly once with its invalid flag as it was.
C2_WarnWrittenInvalid ==
    /\ cur.writes <= 1
    /\ Dispatched /\ ERROR \notin cur.sev /\ WARN \in cur.sev
          => cur.writes = 1 /\ cur.write_invalid
    /\ Dispatched /\ ERROR \notin cur.sev /\ WARN \notin cur.sev
          => cur.writes = 1 /\ cur.write_invalid = cur.invalid0

\* an episode that came in with invalid = false and drew a WARN was written
C2_Witness ==
    /\ Dispatched /\ WARN \in cur.sev /\ ERROR \notin cur.sev
    /\ ~cur.invalid0 /\ cur.writes = 1 /\ cur.write_invalid

\* exactly one is_first step, at index 0, and exactly one is_last step, at the
\* final index
WellFormed(steps) ==
    /\ steps # <<>>
    /\ {i \in 1..Len(steps) : steps[i].is_first} = {1}
    /\ {i \in 1..Len(steps) : steps[i].is_last} = {Len(steps)}

RLDSRegistered == \E i \in 1..Len(validators) : validators[i] = RLDS

\* C3: with RLDSInvariantValidator registered, every episode passed to
\* writer.write_episode has exactly one is_first step, at index 0, and exactly
\* one is_last step, at the final index.
C3_WrittenWellFormed ==
    [][(RLDSRegistered /\ trace' = trace \o <<"write_episode">>)
          => WellFormed(episode.steps)]_vars

\* C6 as claimed: the three counters partition the pulled episodes by class.
C6_CountersPartition ==
    result.returned =>
        /\ result.episodes_rejected = seen.error
        /\ result.episodes_invalid = seen.warn
        /\ result.episodes_written = seen.clean
        /\ result.episodes_rejected + result.episodes_invalid
              + result.episodes_written = pulled

\* C6 amended: episodes_rejected counts the ERROR episodes, episodes_invalid
\* the WARN-without-ERROR episodes, and episodes_written every episode without
\* an ERROR (the invalid ones included), so rejected + written = pulled.
C6_CountersAmended ==
    result.returned =>
        /\ result.episodes_rejected = seen.error
        /\ result.episodes_invalid = seen.warn
        /\ result.episodes_written = seen.warn + seen.clean
        /\ result.episodes_rejected + result.episodes_written = pulled

\* a returned run that saw an ERROR episode and a WARN episode
C6_Witness == result.returned /\ seen.error = 1 /\ seen.warn = 1

\* C7: with fail_fast set, after the first ERROR episode compile pulls no
\* further episode and writes none, and still calls writer.finalize exactly
\* once, handing it every episode written before the error.
C7_FailFastStops ==
    (config.fail_fast /\ first_error > 0) =>
        /\ \A i \in (first_error + 1)..Len(trace) :
              trace[i] \notin {"pull", "write_episode"}
        /\ pc \in {"close", "done", "finalize_raised"}
              => Count(trace, "finalize") = 1
        /\ pc \in {"close", "done"}
              => writer.finalized_count = Count(trace, "write_episode")

\* a fail-fast run that wrote an episode, then hit an ERROR, and returned
C7_Witness ==
    /\ config.fail_fast /\ first_error > 0 /\ pc = "done"
    /\ writer.finalized_count = 1 /\ Count(trace, "finalize") = 1

\* The call order of one run as an automaton over the trace: 0 start,
\* 1 probed, 2 between episodes, 10 + k inside an episode after k transform
\* and validate calls, 3 finalized, 4 closed, -1 out of order.
Delta(q, c) ==
    LET nt == Len(Transforms)
        nv == Len(validators)
    IN CASE q = 0 /\ c = "probe" -> 1
         [] q = 1 /\ c = "begin" -> 2
         [] q = 2 /\ c = "pull" -> 10
         [] q = 2 /\ c = "finalize" -> 3
         [] q = 3 /\ c = "close" -> 4
         [] q >= 10 /\ q - 10 < nt /\ c = "transform" -> q + 1
         [] q >= 10 /\ q - 10 >= nt /\ q - 10 < nt + nv /\ c = "validate" -> q + 1
         [] q = 10 + nt + nv /\ c = "write_episode" -> 2
         [] q = 10 + nt + nv /\ c = "pull" -> 10
         [] q = 10 + nt + nv /\ c = "finalize" -> 3
         [] OTHER -> -1

RECURSIVE RunFrom(_, _)
RunFrom(q, i) == IF i > Len(trace) THEN q ELSE RunFrom(Delta(q, trace[i]), i + 1)

\* C8: in a run that returns the calls are probe, begin, then per episode
\* pull, all transforms, all validators and at most one write_episode, then
\* finalize once, then close; no pull before the previous episode is through
\* and no write_episode after finalize.
C8_CallOrder ==
    /\ RunFrom(0, 1) # -1
    /\ pc = "done" => RunFrom(0, 1) = 4 /\ Count(trace, "finalize") = 1

\* a returned run with one written and one rejected episode
C8_Witness ==
    pc = "done" /\ pulled = 2 /\ episodes_written = 1 /\ episodes_rejected = 1

\* C9: if writer.finalize fails during compile, the run manifest is sealed
\* with status = failed and a cause.
C9_FinalizeFailureSealsManifest ==
    pc = "finalize_raised" => manifest.status = "failed" /\ manifest.error # ""

\* C38: in a run that returns, the report's total_episodes is the sum of its
\* valid, invalid and error counts and the number of episodes pulled;
\* error_episodes = episodes_rejected, invalid_episodes = episodes_invalid,
\* and valid_episodes + invalid_episodes is the number of write_episode calls.
C38_ReportAddsUp ==
    result.returned =>
        LET rep == result.report
        IN /\ rep.total_episodes
                = rep.valid_episodes + rep.invalid_episodes + rep.error_episodes
           /\ rep.total_episodes = pulled
           /\ rep.error_episodes = result.episodes_rejected
           /\ rep.invalid_episodes = result.episodes_invalid
           /\ rep.valid_episodes + rep.invalid_episodes = Count(trace, "write_episode")
           /\ Count(trace, "write_episode") = writer.episode_count

\* a returned run that pulled two episodes, rejected one and wrote the other
\* marked invalid
C38_Witness ==
    /\ result.returned
    /\ pulled = 2
    /\ result.report.error_episodes = 1
    /\ result.report.invalid_episodes = 1
    /\ Count(trace, "write_episode") = 1

\* ===================================================== LeRobotV3Writer
MaxWrites == 3            \* write_episode calls per writer at most
MaxLen == 2               \* steps per written episode at most
MaxRowsPerParquet == 3    \* rows_per_parquet ranges over 0..MaxRowsPerParquet
MaxEpisodesPerChunk == 2  \* episodes_per_chunk ranges over 1..MaxEpisodesPerChunk

TaskTexts == {"pick", "place"}

\* pq.write_table(table, path): creates the file or replaces its content
WriteTable(files, path, rows) ==
    {f \in files : f.path # path} \cup {[path |-> path, rows |-> rows]}

\* LeRobotV3Writer._get_or_create_task: the id of a new text is len(self._tasks)
GetOrCreateTask(ts, text) ==
    IF \E t \in ts : t.task = text THEN ts
    ELSE ts \cup {[task |-> text, task_index |-> Cardinality(ts)]}

TaskId(ts, text) == (CHOOSE t \in ts : t.task = text).task_index

\* LeRobotV3Writer._step_to_record: the columns that locate the row
StepToRecord(episode_index, frame_index) ==
    [episode_index |-> episode_index, frame_index |-> frame_index]

\* mutant: the shard counter is not advanced, the next flush reuses the path
FlushKeepsIndex(files, buffer, cidx, pidx) ==
    IF buffer = <<>>
    THEN [data_files |-> files, step_buffer |-> buffer, parquet_idx |-> pidx]
    ELSE [data_files |-> WriteTable(files, <<cidx, pidx>>, buffer),
          step_buffer |-> <<>>, parquet_idx |-> pidx]

\* mutant: a flush stores the first buffered row only and keeps the rest
FlushSplitsBuffer(files, buffer, cidx, pidx) ==
    IF buffer = <<>>
    THEN [data_files |-> files, step_buffer |-> buffer, parquet_idx |-> pidx]
    ELSE [data_files |-> WriteTable(files, <<cidx, pidx>>, <<Head(buffer)>>),
          step_buffer |-> Tail(buffer), parquet_idx |-> pidx + 1]

\* LeRobotV3Writer._flush_step_buffer: the buffer goes to
\* data/chunk-{chunk_idx}/steps_{parquet_idx}.parquet
FlushStepBuffer(files, buffer, cidx, pidx) ==
    IF buffer = <<>>
    THEN [data_files |-> files, step_buffer |-> buffer, parquet_idx |-> pidx]
    ELSE [data_files |-> WriteTable(files, <<cidx, pidx>>, buffer),
          step_buffer |-> <<>>, parquet_idx |-> pidx + 1]

\* LeRobotV3Writer(episodes_per_chunk, rows_per_parquet)
WriterInit ==
    /\ wstate = "new"
    /\ episodes_per_chunk \in 1..MaxEpisodesPerChunk
    /\ rows_per_parquet \in 0..MaxRowsPerParquet
    /\ episode_count = 0
    /\ tasks = {}
    /\ episode_records = <<>>
    /\ step_buffer = <<>>
    /\ total_steps = 0
    /\ chunk_idx = 0
    /\ parquet_idx = 0
    /\ data_files = {}
    /\ meta_files = NoMetaFiles
    /\ written_lengths = <<>>

\* LeRobotV3Writer.begin
WriterBegin ==
    /\ wstate = "new"
    /\ wstate' = "begun"
    /\ episode_count' = 0
    /\ tasks' = {}
    /\ episode_records' = <<>>
    /\ step_buffer' = <<>>
    /\ total_steps' = 0
    /\ chunk_idx' = 0
    /\ parquet_idx' = 0
    /\ UNCHANGED <<episodes_per_chunk, rows_per_parquet, data_files, meta_files,
                   written_lengths>>
    /\ UNCHANGED <<compilerVars, verifyVars, libraryVars>>

\* LeRobotV3Writer.write_episode for an episode of len steps and task text
WriteEpisode ==
    /\ wstate = "begun"
    /\ Len(written_lengths) < MaxWrites
    /\ \E len \in 0..MaxLen, text \in TaskTexts :
          LET count == episode_count + 1
              ts == GetOrCreateTask(tasks, text)
              record == [episode_index |-> count - 1,
                         tasks |-> <<TaskId(ts, text)>>,
                         length |-> len]
              buffer == step_buffer
                          \o [i \in 1..len |-> StepToRecord(count - 1, total_steps + i - 1)]
              flushed == IF Len(buffer) >= rows_per_parquet
                           THEN FlushStepBuffer(data_files, buffer, chunk_idx, parquet_idx)
                           ELSE [data_files |-> data_files, step_buffer |-> buffer,
                                 parquet_idx |-> parquet_idx]
          IN /\ episode_count' = count
             /\ tasks' = ts
             /\ episode_records' = Append(episode_records, record)
             /\ total_steps' = total_steps + len
             /\ data_files' = flushed.data_files
             /\ step_buffer' = flushed.step_buffer
             /\ parquet_idx' = flushed.parquet_idx
             /\ chunk_idx' = IF count % episodes_per_chunk = 0
                               THEN chunk_idx + 1 ELSE chunk_idx
             /\ written_lengths' = Append(written_lengths, len)
    /\ UNCHANGED <<wstate, episodes_per_chunk, rows_per_parquet, meta_files>>
    /\ UNCHANGED <<compilerVars, verifyVars, libraryVars>>

\* tasks.jsonl: sorted(self._tasks.items(), key=lambda x: x[1])
RECURSIVE TasksJsonl(_, _)
TasksJsonl(ts, i) ==
    IF i >= Cardinality(ts) THEN <<>>
    ELSE <<CHOOSE t \in ts : t.task_index = i>> \o TasksJsonl(ts, i + 1)

\* LeRobotV3Writer.finalize: flush what is buffered, then write info.json,
\* tasks.jsonl and, when there are records, meta/episodes/episodes.parquet
WriterFinalize ==
    /\ wstate = "begun"
    /\ LET flushed == FlushStepBuffer(data_files, step_buffer, chunk_idx, parquet_idx)
       IN /\ data_files' = flushed.data_files
          /\ step_buffer' = flushed.step_buffer
          /\ parquet_idx' = flushed.parquet_idx
    /\ meta_files' =
          [info_exists |-> TRUE,
           info |-> [total_episodes |-> episode_count, total_frames |-> total_steps,
                     total_tasks |-> Cardinality(tasks)],
           tasks_exists |-> TRUE,
           tasks_jsonl |-> TasksJsonl(tasks, 0),
           episodes_exists |-> (episode_records # <<>>),
           episodes |-> episode_records]
    /\ wstate' = "finalized"
    /\ UNCHANGED <<episodes_per_chunk, rows_per_parquet, episode_count, tasks,
                   episode_records, total_steps, chunk_idx, written_lengths>>
    /\ UNCHANGED <<compilerVars, verifyVars, libraryVars>>

InitWriter == CompilerIdle /\ WriterInit /\ VerifyIdle /\ LibraryIdle

NextWriter ==
    \/ WriterBegin
    \/ WriteEpisode
    \/ WriterFinalize

SpecWriter == InitWriter /\ [][NextWriter]_vars

\* ============================================== claims on SpecWriter
RECURSIVE SumTo(_, _)
SumTo(seq, n) == IF n = 0 THEN 0 ELSE seq[n] + SumTo(seq, n - 1)

Sum(seq) == SumTo(seq, Len(seq))

\* the (file, row) places of the rows stored across all data shards
StoredRows == UNION {{<<f.path, i>> : i \in 1..Len(f.rows)} : f \in data_files}

\* the places that hold a row with frame_index k
PlacesOf(k) ==
    UNION {{<<f.path, i>> : i \in {j \in 1..Len(f.rows) : f.rows[j].frame_index = k}} :
              f \in data_files}

\* the index of the written episode that step number k (0-based, in write
\* order) belongs to
EpisodeOfFrame(k) ==
    (CHOOSE i \in 1..Len(written_lengths) :
        SumTo(written_lengths, i - 1) <= k /\ k < SumTo(written_lengths, i)) - 1

\* C4: after finalize following N write_episode calls the row buffer is empty,
\* the rows stored across all data shards are the steps of the N episodes,
\* each in exactly one shard: frame_index 0..T-1 without duplicate or gap, T the
\* sum of the episode lengths; info.json reports total_episodes = N and
\* total_frames = T.
C4_ShardsHoldEveryStepOnce ==
    wstate = "finalized" =>
        LET n == Len(written_lengths)
            t == Sum(written_lengths)
        IN /\ step_buffer = <<>>
           /\ Cardinality(StoredRows) = t
           /\ \A k \in 0..(t - 1) : Cardinality(PlacesOf(k)) = 1
           /\ \A f \in data_files : \A i \in 1..Len(f.rows) :
                 f.rows[i].episode_index = EpisodeOfFrame(f.rows[i].frame_index)
           /\ meta_files.info_exists
           /\ meta_files.info.total_episodes = n
           /\ meta_files.info.total_frames = t

\* a finalized dataset of three episodes whose rows lie in several shards of
\* more than one chunk
C4_Witness ==
    /\ wstate = "finalized"
    /\ Len(written_lengths) = 3
    /\ Cardinality(data_files) >= 2
    /\ \E f, g \in data_files : f.path[1] # g.path[1]

\* C5 as claimed: the index table has one row per written episode, in write
\* order, and row i carries [parquet_row_start, parquet_row_end) =
\* [L_0 + ... + L_(i-1), L_0 + ... + L_i).
C5_IndexRowRanges ==
    wstate = "finalized" =>
        LET rows == meta_files.episodes
        IN /\ Len(rows) = Len(written_lengths)
           /\ \A i \in 1..Len(rows) :
                 /\ rows[i].episode_index = i - 1
                 /\ "parquet_row_start" \in DOMAIN rows[i]
                 /\ "parquet_row_end" \in DOMAIN rows[i]
                 /\ rows[i].parquet_row_start = SumTo(written_lengths, i - 1)
                 /\ rows[i].parquet_row_end = SumTo(written_lengths, i)

\* the chunk an episode index belongs to
ChunkOf(e) == e \div episodes_per_chunk

\* C31 as claimed: after k written episodes chunk_idx = floor(k /
\* episodes_per_chunk), and every shard under data/chunk-K holds only rows of
\* episodes e with floor(e / episodes_per_chunk) = K.
C31_ChunkHoldsItsEpisodes ==
    /\ chunk_idx = ChunkOf(episode_count)
    /\ \A f \in data_files : \A i \in 1..Len(f.rows) :
          ChunkOf(f.rows[i].episode_index) = f.path[1]

\* the number of rows of episode e in a sequence of step records
RowsOfIn(rows, e) == Cardinality({i \in 1..Len(rows) : rows[i].episode_index = e})

\* the shard files that hold a row of episode e
ShardsOf(e) == {f \in data_files : RowsOfIn(f.rows, e) > 0}

\* the rows of every written episode are all in the buffer or all in one shard
EpisodesUnsplit ==
    \A e \in 0..(Len(written_lengths) - 1) :
        LET L == written_lengths[e + 1]
        IN \/ RowsOfIn(step_buffer, e) = L /\ ShardsOf(e) = {}
           \/ /\ RowsOfIn(step_buffer, e) = 0
              /\ \E f \in ShardsOf(e) : ShardsOf(e) = {f} /\ RowsOfIn(f.rows, e) = L

\* C32: the rows of one episode are all stored in the same shard file (the
\* buffer is flushed between episodes only), and a flush writes a path that
\* no earlier flush of the run wrote, so no shard file is ever replaced.
C32_EpisodeInOneShard ==
    /\ []EpisodesUnsplit
    /\ [][\A f \in data_files : f \in data_files']_vars

\* two shards exist and one of them holds two whole episodes, one of them of
\* two steps
C32_Witness ==
    /\ Cardinality(data_files) >= 2
    /\ \E f \in data_files : \E e1, e2 \in 0..(Len(written_lengths) - 1) :
          /\ e1 # e2
          /\ RowsOfIn(f.rows, e1) = 2
          /\ RowsOfIn(f.rows, e2) >= 1

\* ===================================== DatasetFinalizer.verify_offsets
MaxIndexRows == 2         \* rows of the index table at most
MaxRow == 3               \* parquet_row_start and parquet_row_end range over 0..MaxRow
MaxExpectedSteps == 4     \* expected_steps ranges over 0..MaxExpectedSteps

IndexRows == [parquet_row_start : 0..MaxRow, parquet_row_end : 0..MaxRow]

IndexTables == UNION {[1..n -> IndexRows] : n \in 0..MaxIndexRows}

\* tuple comparison of (start, end) pairs, as list.sort() orders them
RangeLeq(a, b) == a[1] < b[1] \/ (a[1] = b[1] /\ a[2] <= b[2])

RECURSIVE Insert(_, _)
Insert(sorted, x) ==
    IF sorted = <<>> THEN <<x>>
    ELSE IF RangeLeq(x, Head(sorted)) THEN <<x>> \o sorted
    ELSE <<Head(sorted)>> \o Insert(Tail(sorted), x)

RECURSIVE SortFrom(_, _)
SortFrom(seq, i) ==
    IF i > Len(seq) THEN <<>> ELSE Insert(SortFrom(seq, i + 1), seq[i])

\* mutant: the ranges are compared in table order, ranges.sort() left out
UnsortedRanges(table) ==
    [i \in 1..Len(table) |->
        <<table[i].parquet_row_start, table[i].parquet_row_end>>]

\* ranges = list(zip(parquet_row_start, parquet_row_end)); ranges.sort()
SortedRanges(table) ==
    SortFrom([i \in 1..Len(table) |->
                 <<table[i].parquet_row_start, table[i].parquet_row_end>>], 1)

\* for i in range(1, len(ranges)): if ranges[i][0] < ranges[i-1][1]: error
RECURSIVE OverlapErrors(_, _)
OverlapErrors(ranges, i) ==
    IF i > Len(ranges) - 1 THEN <<>>
    ELSE (IF ranges[i + 1][1] < ranges[i][2]
            THEN <<[message |-> "Overlapping parquet ranges at index", at |-> i]>>
            ELSE <<>>)
         \o OverlapErrors(ranges, i + 1)

\* DatasetFinalizer.verify_offsets(episodes_count, expected_steps)
VerifyOffsetsOf(exists, table, episodes_count, expected_steps) ==
    IF ~exists
    THEN <<[message |-> "Missing episodes index", at |-> -1]>>
    ELSE (IF Len(table) # episodes_count
            THEN <<[message |-> "Episode count mismatch", at |-> -1]>>
            ELSE <<>>)
         \o OverlapErrors(SortedRanges(table), 1)

InitVerify ==
    /\ CompilerIdle
    /\ WriterIdle
    /\ LibraryIdle
    /\ index_exists \in BOOLEAN
    /\ index_table \in (IF index_exists THEN IndexTables ELSE {<<>>})
    /\ v_episodes_count \in 0..MaxIndexRows
    /\ v_expected_steps \in 0..MaxExpectedSteps
    /\ v_errors = <<>>
    /\ v_pc = "call"

\* errors = self.verify_offsets(episode_count, expected_steps)
VerifyOffsets ==
    /\ v_pc = "call"
    /\ v_errors' = VerifyOffsetsOf(index_exists, index_table, v_episodes_count,
                                   v_expected_steps)
    /\ v_pc' = "returned"
    /\ UNCHANGED <<index_exists, index_table, v_episodes_count, v_expected_steps>>
    /\ UNCHANGED <<compilerVars, writerVars, libraryVars>>

NextVerify == VerifyOffsets

SpecVerify == InitVerify /\ [][NextVerify]_vars

\* ============================================== claims on SpecVerify
\* the number of rows the index's row ranges cover
RECURSIVE CoveredRows(_, _)
CoveredRows(table, n) ==
    IF n = 0 THEN 0
    ELSE (table[n].parquet_row_end - table[n].parquet_row_start)
         + CoveredRows(table, n - 1)

\* C10: verify_offsets returns a non-empty violation list whenever the number
\* of index rows differs from episodes_count or the rows covered by the index's
\* row ranges differ in number from expected_steps.
C10_VerifyOffsetsReportsMismatch ==
    (/\ v_pc = "returned"
     /\ \/ Len(index_table) # v_episodes_count
        \/ CoveredRows(index_table, Len(index_table)) # v_expected_steps)
       => v_errors # <<>>

\* ------------------- verify_offsets on index tables of non-empty row ranges
MaxOverlapRows == 3       \* rows of such an index table at most

NonEmptyRows == {r \in IndexRows : r.parquet_row_start < r.parquet_row_end}

NonEmptyTables == UNION {[1..n -> NonEmptyRows] : n \in 0..MaxOverlapRows}

\* an existing index whose rows all have parquet_row_start < parquet_row_end,
\* checked against the number of rows it covers
InitOverlap ==
    /\ CompilerIdle
    /\ WriterIdle
    /\ LibraryIdle
    /\ index_exists = TRUE
    /\ index_table \in NonEmptyTables
    /\ v_episodes_count \in 0..MaxOverlapRows
    /\ v_expected_steps = CoveredRows(index_table, Len(index_table))
    /\ v_errors = <<>>
    /\ v_pc = "call"

SpecOverlap == InitOverlap /\ [][NextVerify]_vars

\* the half-open ranges a and b have a row in common
Intersect(a, b) ==
    /\ a[1] < b[2]
    /\ b[1] < a[2]

OverlapReported ==
    \E k \in 1..Len(v_errors) :
        v_errors[k].message = "Overlapping parquet ranges at index"

\* C36: on an index whose rows all have parquet_row_start < parquet_row_end,
\* verify_offsets reports an overlap exactly when the ranges of two rows
\* intersect; the comparison of neighbours after sorting misses no pair.
C36_OverlapIffIntersect ==
    (/\ v_pc = "returned"
     /\ \A i \in 1..Len(index_table) :
           index_table[i].parquet_row_start < index_table[i].parquet_row_end)
       => (OverlapReported <=>
              \E i, j \in 1..Len(index_table) :
                 /\ i # j
                 /\ Intersect(UnsortedRanges(index_table)[i],
                              UnsortedRanges(index_table)[j]))

\* three rows, given in an order that is not the sorted one, of which the
\* first and the last range after sorting intersect while the last two do not
C36_Witness ==
    /\ v_pc = "returned"
    /\ Len(index_table) = 3
    /\ UnsortedRanges(index_table) # SortedRanges(index_table)
    /\ LET r == SortedRanges(index_table)
       IN /\ Intersect(r[1], r[3])
          /\ ~Intersect(r[2], r[3])
    /\ OverlapReported

\* ========================================== DatasetFinalizer.finalize
\* a file path relative to the dataset root: its components and its suffix
Path(parts, suffix) == [parts |-> parts, suffix |-> suffix]

InfoJson == Path(<<"meta", "info">>, "json")
\* the index table LeRobotV3Writer._write_episodes_parquet produces
EpisodesTable == Path(<<"meta", "episodes", "episodes">>, "parquet")
StepsShard == Path(<<"data", "chunk-000", "steps_00000">>, "parquet")
VideoShard == Path(<<"videos", "chunk-000", "episode_000000_cam">>, "mp4")
\* layout.episodes_index_path
EpisodesIndex == Path(<<"meta", "episodes">>, "parquet")
ManifestJson == Path(<<"meta", "manifest">>, "json")
ChecksumsJson == Path(<<"meta", "checksums">>, "json")

\* the files a dataset root may hold when the finalizer is called
ProducedFiles == {InfoJson, EpisodesTable, StepsShard, VideoShard}

\* the order in which a directory walk lists the files (one fixed order)
Listing == <<ChecksumsJson, EpisodesIndex, InfoJson, ManifestJson, EpisodesTable,
             StepsShard, VideoShard>>

\* every file under the dataset root
Existing(produced, index, manifest_json, checksums_json) ==
    produced
      \cup (IF index THEN {EpisodesIndex} ELSE {})
      \cup (IF manifest_json.exists THEN {ManifestJson} ELSE {})
      \cup (IF checksums_json.exists THEN {ChecksumsJson} ELSE {})

\* layout.meta_dir.glob("*") with path.is_file(): the direct children of meta/
MetaGlob(fs) == {p \in fs : p.parts[1] = "meta" /\ Len(p.parts) = 2}

\* layout.data_dir.rglob("*.parquet")
DataRGlob(fs) == {p \in fs : p.parts[1] = "data" /\ p.suffix = "parquet"}

\* layout.videos_dir.rglob("*.mp4")
VideosRGlob(fs) == {p \in fs : p.parts[1] = "videos" /\ p.suffix = "mp4"}

\* compute_dataset_checksums: the keys of the returned dict
ComputeDatasetChecksums(fs) == MetaGlob(fs) \cup DataRGlob(fs) \cup VideosRGlob(fs)

\* write_checksums
WriteChecksums(checksums) == [exists |-> TRUE, entries |-> checksums]

\* "; ".join(errors)
Separator == [message |-> "; ", at |-> -1]

RECURSIVE JoinFrom(_, _)
JoinFrom(errors, i) ==
    IF i > Len(errors) THEN <<>>
    ELSE IF i = Len(errors) THEN <<errors[i]>>
    ELSE <<errors[i], Separator>> \o JoinFrom(errors, i + 1)

Join(errors) == JoinFrom(errors, 1)

\* RunManifest.add_artifact
ManifestAddArtifact(m, path) == [m EXCEPT !.artifacts = Append(@, path)]

\* RunManifest.complete
ManifestComplete(m, count, duration) ==
    [m EXCEPT !.episode_count = count, !.duration_secs = duration,
              !.status = "completed"]

\* RunManifest.fail
ManifestFail(m, error) == [m EXCEPT !.status = "failed", !.error = error]

\* RunManifest.save: json.dump(self.to_dict())
ManifestSave(m) ==
    [exists |-> TRUE, status |-> m.status, error |-> m.error,
     artifacts |-> m.artifacts, episode_count |-> m.episode_count,
     duration_secs |-> m.duration_secs]

RECURSIVE AddArtifacts(_, _, _)
AddArtifacts(m, paths, i) ==
    IF i > Len(paths) THEN m
    ELSE AddArtifacts(ManifestAddArtifact(m, paths[i]), paths, i + 1)

\* the three loops of seal_manifest, in listing order
SealListing(fs) ==
    SelectSeq(Listing, LAMBDA p : p \in MetaGlob(fs))
      \o SelectSeq(Listing, LAMBDA p : p \in DataRGlob(fs))
      \o SelectSeq(Listing, LAMBDA p : p \in VideosRGlob(fs))

\* DatasetFinalizer.seal_manifest: the manifest object after the call
SealManifest(m, fs, count, duration) ==
    ManifestComplete(AddArtifacts(m, SealListing(fs), 1), count, duration)

\* index rows of non-empty ranges over the first two shard rows
FinalizeRows == {r \in IndexRows : r.parquet_row_start < r.parquet_row_end
                                     /\ r.parquet_row_end <= 2}

FinalizeTables == UNION {[1..n -> FinalizeRows] : n \in 0..MaxIndexRows}

\* finalize(manifest, episode_count, expected_steps, duration_secs) on a fresh
\* manifest and any dataset root
InitFinalize ==
    /\ CompilerIdle
    /\ WriterIdle
    /\ index_exists \in BOOLEAN
    /\ index_table \in (IF index_exists THEN FinalizeTables ELSE {<<>>})
    /\ v_episodes_count \in 0..MaxIndexRows
    /\ v_expected_steps \in 0..MaxExpectedSteps
    /\ v_errors = <<>>
    /\ v_pc = "call"
    /\ root_files \in SUBSET ProducedFiles
    /\ run_manifest = NewRunManifest
    /\ manifest_file = NoFile
    /\ checksums_file = NoFile
    /\ f_pc = "call"
    /\ status_log = <<>>
    /\ m_calls = 0
    /\ CatalogIdle
    /\ StatsIdle
    /\ QueryIdle
    /\ SlicerIdle
    /\ RunnerIdle
    /\ QualityIdle
    /\ PipelineIdle
    /\ RoundTripIdle
    /\ AccumulatorIdle
    /\ SplitIdle
    /\ VideoIdle
    /\ ResampleIdle
    /\ ContextIdle

\* if errors: manifest.fail("; ".join(errors)); manifest.save(...); raise ValueError
FinalizeFailNoSave ==
    /\ f_pc = "call"
    /\ v_pc = "returned"
    /\ v_errors # <<>>
    /\ run_manifest' = ManifestFail(run_manifest, Join(v_errors))
    /\ status_log' = Append(status_log, "failed")
    /\ m_calls' = m_calls + 1
    /\ f_pc' = "raised"
    /\ UNCHANGED <<root_files, checksums_file, manifest_file>>
    /\ UNCHANGED exceptFinalizer

FinalizeFail ==
    /\ f_pc = "call"
    /\ v_pc = "returned"
    /\ v_errors # <<>>
    /\ run_manifest' = ManifestFail(run_manifest, Join(v_errors))
    /\ manifest_file' = ManifestSave(run_manifest')
    /\ status_log' = Append(status_log, "failed")
    /\ m_calls' = m_calls + 1
    /\ f_pc' = "raised"
    /\ UNCHANGED <<root_files, checksums_file>>
    /\ UNCHANGED exceptFinalizer

\* checksums = compute_checksums(); write_checksums(checksums);
\* seal_manifest(manifest, episode_count, duration_secs); return
FinalizeSucceed ==
    /\ f_pc = "call"
    /\ v_pc = "returned"
    /\ v_errors = <<>>
    /\ checksums_file' = WriteChecksums(ComputeDatasetChecksums(
           Existing(root_files, index_exists, manifest_file, checksums_file)))
    /\ \E duration \in 1..2 :
          run_manifest' = SealManifest(run_manifest,
              Existing(root_files, index_exists, manifest_file, checksums_file'),
              v_episodes_count, duration)
    /\ manifest_file' = ManifestSave(run_manifest')
    /\ status_log' = Append(status_log, "completed")
    /\ m_calls' = m_calls + 1
    /\ f_pc' = "returned"
    /\ UNCHANGED root_files
    /\ UNCHANGED exceptFinalizer

NextFinalize ==
    \/ VerifyOffsets
    \/ FinalizeFail
    \/ FinalizeSucceed

SpecFinalize == InitFinalize /\ [][NextFinalize]_vars

\* ============================================ claims on SpecFinalize
\* C11: when verify_offsets reports a violation, finalize marks the manifest
\* failed with an error text holding every violation, saves it as
\* meta/manifest.json, raises, writes no meta/checksums.json and never sets
\* the status to completed.
C11_FailingFinalize ==
    (v_pc = "returned" /\ v_errors # <<>>) =>
        /\ f_pc \in {"call", "raised"}
        /\ ~checksums_file.exists
        /\ Count(status_log, "completed") = 0
        /\ run_manifest.status # "completed"
        /\ f_pc = "raised" =>
              /\ run_manifest.status = "failed"
              /\ \A i \in 1..Len(v_errors) :
                    \E j \in 1..Len(run_manifest.error) :
                        run_manifest.error[j] = v_errors[i]
              /\ manifest_file.exists
              /\ manifest_file.status = "failed"
              /\ manifest_file.error = run_manifest.error

C11_Witness ==
    /\ f_pc = "raised"
    /\ Len(v_errors) = 2
    /\ manifest_file.exists

\* C12 as claimed: after a successful finalize, meta/checksums.json has an
\* entry for every file under meta/ (at any depth), data/ and videos/ that
\* existed when the checksums were computed.
C12_ChecksumsCoverEveryFile ==
    f_pc = "returned" =>
        \A p \in Existing(root_files, index_exists, NoFile, NoFile) :
            p.parts[1] \in {"meta", "data", "videos"} => p \in checksums_file.entries

\* ====================================================== RunManifest
MaxManifestCalls == 3     \* calls made on one manifest

ErrorTexts == {<<[message |-> "boom", at |-> -1]>>}

\* a manifest as RunManifest.create returns it, and any dataset root
InitManifest ==
    /\ CompilerIdle
    /\ WriterIdle
    /\ VerifyIdle
    /\ root_files \in SUBSET ProducedFiles
    /\ run_manifest = NewRunManifest
    /\ manifest_file = NoFile
    /\ checksums_file = NoFile
    /\ f_pc = "idle"
    /\ status_log = <<>>
    /\ m_calls = 0
    /\ CatalogIdle
    /\ StatsIdle
    /\ QueryIdle
    /\ SlicerIdle
    /\ RunnerIdle
    /\ QualityIdle
    /\ PipelineIdle
    /\ RoundTripIdle
    /\ AccumulatorIdle
    /\ SplitIdle
    /\ VideoIdle
    /\ ResampleIdle
    /\ ContextIdle

\* manifest.add_artifact(path)
CallAddArtifact ==
    /\ m_calls < MaxManifestCalls
    /\ \E p \in ProducedFiles : run_manifest' = ManifestAddArtifact(run_manifest, p)
    /\ m_calls' = m_calls + 1
    /\ UNCHANGED <<root_files, manifest_file, checksums_file, f_pc, status_log>>
    /\ UNCHANGED exceptFinalizer

\* manifest.complete(episode_count, duration_secs)
CallComplete ==
    /\ m_calls < MaxManifestCalls
    /\ \E count \in 0..1, duration \in 1..2 :
          run_manifest' = ManifestComplete(run_manifest, count, duration)
    /\ status_log' = Append(status_log, "completed")
    /\ m_calls' = m_calls + 1
    /\ UNCHANGED <<root_files, manifest_file, checksums_file, f_pc>>
    /\ UNCHANGED exceptFinalizer

\* manifest.fail(error)
CallFail ==
    /\ m_calls < MaxManifestCalls
    /\ \E error \in ErrorTexts : run_manifest' = ManifestFail(run_manifest, error)
    /\ status_log' = Append(status_log, "failed")
    /\ m_calls' = m_calls + 1
    /\ UNCHANGED <<root_files, manifest_file, checksums_file, f_pc>>
    /\ UNCHANGED exceptFinalizer

\* DatasetFinalizer.seal_manifest(manifest, episode_count, duration_secs)
CallSealManifest ==
    /\ m_calls < MaxManifestCalls
    /\ \E count \in 0..1, duration \in 1..2 :
          run_manifest' = SealManifest(run_manifest,
              Existing(root_files, index_exists, manifest_file, checksums_file),
              count, duration)
    /\ manifest_file' = ManifestSave(run_manifest')
    /\ status_log' = Append(status_log, "completed")
    /\ m_calls' = m_calls + 1
    /\ UNCHANGED <<root_files, checksums_file, f_pc>>
    /\ UNCHANGED exceptFinalizer

NextManifest ==
    \/ CallAddArtifact
    \/ CallComplete
    \/ CallFail
    \/ CallSealManifest

SpecManifest == InitManifest /\ [][NextManifest]_vars

\* ============================================ claims on SpecManifest
\* C13 as claimed: once complete() or fail() has been called, no later call
\* to complete(), fail(), add_artifact() or seal_manifest changes the
\* manifest's status, error, artifact list or counters.
C13_SealedOnce ==
    [][run_manifest.status # "running" => run_manifest' = run_manifest]_vars

\* ========================================= further claims on Spec
\* C14 as claimed: with RLDSInvariantValidator registered, every step with
\* is_last = TRUE of an episode passed to writer.write_episode has no action.
C14_LastStepActionAbsent ==
    [][(RLDSRegistered /\ trace' = trace \o <<"write_episode">>) =>
          \A i \in 1..Len(episode.steps) :
              episode.steps[i].is_last => episode.steps[i].action = None]_vars

\* the ERROR findings of the RLDS validator among the episode's findings
RLDSErrors ==
    {i \in 1..Len(findings) :
        findings[i].severity = ERROR /\ findings[i].message # "other"}

MaxAdds == 4              \* add calls on one catalog

CatalogTexts == {"A", "B", "C"}

\* TaskCatalog.add without the membership test
AddAlwaysNew(c, task) ==
    [tasks |-> (task :> c.next_id) @@ c.tasks,
     reverse |-> (c.next_id :> task) @@ c.reverse,
     next_id |-> c.next_id + 1,
     returned |-> c.next_id]

\* TaskCatalog.add: the catalog after the call and the id returned
CatalogAdd(c, task) ==
    IF task \in DOMAIN c.tasks
    THEN [tasks |-> c.tasks, reverse |-> c.reverse, next_id |-> c.next_id,
          returned |-> c.tasks[task]]
    ELSE [tasks |-> (task :> c.next_id) @@ c.tasks,
          reverse |-> (c.next_id :> task) @@ c.reverse,
          next_id |-> c.next_id + 1,
          returned |-> c.next_id]

\* TaskCatalog.get_task: self._reverse.get(task_id)
GetTask(c, task_id) ==
    IF task_id \in DOMAIN c.reverse THEN c.reverse[task_id] ELSE None

InitCatalog ==
    /\ CompilerIdle
    /\ WriterIdle
    /\ VerifyIdle
    /\ FinalizerIdle
    /\ StatsIdle
    /\ QueryIdle
    /\ SlicerIdle
    /\ catalog = NewCatalog
    /\ add_log = <<>>
    /\ RunnerIdle
    /\ QualityIdle
    /\ PipelineIdle
    /\ RoundTripIdle
    /\ AccumulatorIdle
    /\ SplitIdle
    /\ VideoIdle
    /\ ResampleIdle
    /\ ContextIdle

\* catalog.add(task)
Add ==
    /\ Len(add_log) < MaxAdds
    /\ \E task \in CatalogTexts :
          LET after == CatalogAdd(catalog, task)
          IN /\ catalog' = [tasks |-> after.tasks, reverse |-> after.reverse,
                            next_id |-> after.next_id]
             /\ add_log' = Append(add_log, [task |-> task, id |-> after.returned])
    /\ UNCHANGED exceptCatalog

NextCatalog == Add

SpecCatalog == InitCatalog /\ [][NextCatalog]_vars

\* ============================================= claims on SpecCatalog
\* the texts added before call i
TextsBefore(i) == {add_log[k].task : k \in 1..(i - 1)}

\* the first call that added the text of call i
FirstCall(i) == CHOOSE k \in 1..i :
    /\ add_log[k].task = add_log[i].task
    /\ \A j \in 1..(k - 1) : add_log[j].task # add_log[i].task

\* C15: add returns the same id for the same text, distinct ids for distinct
\* texts, ids 0,1,2,... in order of first appearance; _tasks and _reverse stay
\* mutual inverses, get_task(add(x)) = x, and the catalog size equals _next_id.
C15_CatalogBijection ==
    /\ \A i, j \in 1..Len(add_log) :
          (add_log[i].task = add_log[j].task) <=> (add_log[i].id = add_log[j].id)
    /\ \A i \in 1..Len(add_log) :
          /\ add_log[i].id = Cardinality(TextsBefore(FirstCall(i)))
          /\ GetTask(catalog, add_log[i].id) = add_log[i].task
    /\ DOMAIN catalog.tasks = {add_log[i].task : i \in 1..Len(add_log)}
    /\ DOMAIN catalog.reverse = 0..(catalog.next_id - 1)
    /\ \A t \in DOMAIN catalog.tasks : GetTask(catalog, catalog.tasks[t]) = t
    /\ \A k \in DOMAIN catalog.reverse : catalog.tasks[catalog.reverse[k]] = k
    /\ Cardinality(DOMAIN catalog.tasks) = catalog.next_id

C15_Witness ==
    /\ Len(add_log) >= 3
    /\ add_log[1] = [task |-> "A", id |-> 0]
    /\ add_log[2] = [task |-> "B", id |-> 1]
    /\ add_log[3] = [task |-> "A", id |-> 0]

\* ==================================== LeRobotV3Writer._update_stats
MaxStatSteps == 2         \* steps passed to _update_stats
MaxObsKeys == 1           \* observation keys of one step

\* observation keys, as their dot-separated parts
ObsKeys == {<<"observation", "state">>,
            <<"observation", "images", "front">>,
            <<"observation", "Images", "wrist">>,
            <<"observation", "depth", "front">>}

ActionKey == <<"action">>

\* str.lower() of a key part
Lower(part) == IF part = "Images" THEN "images" ELSE part

\* "image" in part, for a lower-case part
ContainsImage(part) == part \in {"image", "images"}

\* "image" in key.lower()
ImageInKey(key) == \E i \in 1..Len(key) : ContainsImage(Lower(key[i]))

\* observation values: numpy arrays by dtype kind and number of dimensions
\* (is_video: the flag of the feature's FeatureSpec), and strings
Ndarray(kind, ndim, is_video) ==
    [type |-> "ndarray", kind |-> kind, ndim |-> ndim, is_video |-> is_video]

ObsValues ==
    {Ndarray(kind, ndim, FALSE) : kind \in {"f", "u", "U"}, ndim \in {1, 3}}
      \cup {Ndarray("u", 3, TRUE)}
      \cup {[type |-> "str", kind |-> "U", ndim |-> 0, is_video |-> FALSE]}

Observations ==
    UNION {[ks -> ObsValues] : ks \in {k \in SUBSET ObsKeys : Cardinality(k) <= MaxObsKeys}}

\* the action of a step as the array it is
ActionValue == Ndarray("f", 1, FALSE)

\* LeRobotV3Writer._update_stats: the StatsAccumulator.add calls it makes
UpdateStatsCalls(action, observation) ==
    (IF action # None THEN {[key |-> ActionKey, value |-> ActionValue]} ELSE {})
      \cup {[key |-> k, value |-> observation[k]] : k \in
              {k \in DOMAIN observation :
                  /\ observation[k].type = "ndarray"
                  /\ observation[k].kind \in {"f", "i", "u"}
                  /\ ~ImageInKey(k)}}

\* StatsAccumulator.add on each call: self._count[key] += 1
StatsAdd(count, calls) ==
    [k \in DOMAIN count \cup {c.key : c \in calls} |->
        (IF k \in DOMAIN count THEN count[k] ELSE 0)
          + (IF \E c \in calls : c.key = k THEN 1 ELSE 0)]

InitStats ==
    /\ CompilerIdle
    /\ WriterIdle
    /\ VerifyIdle
    /\ FinalizerIdle
    /\ CatalogIdle
    /\ QueryIdle
    /\ SlicerIdle
    /\ stats_count = <<>>
    /\ stats_added = {}
    /\ stats_steps = 0
    /\ RunnerIdle
    /\ QualityIdle
    /\ PipelineIdle
    /\ RoundTripIdle
    /\ AccumulatorIdle
    /\ SplitIdle
    /\ VideoIdle
    /\ ResampleIdle
    /\ ContextIdle

\* self._update_stats(step), once per step of a written episode
UpdateStats ==
    /\ stats_steps < MaxStatSteps
    /\ \E action \in {None, Array}, observation \in Observations :
          LET calls == UpdateStatsCalls(action, observation)
          IN /\ stats_count' = StatsAdd(stats_count, calls)
             /\ stats_added' = stats_added \cup calls
    /\ stats_steps' = stats_steps + 1
    /\ UNCHANGED exceptStats

NextStats == UpdateStats

SpecStats == InitStats /\ [][NextStats]_vars

\* =============================================== claims on SpecStats
\* an image or video tensor: a video feature or a 3-D image array
IsImageTensor(value) ==
    value.type = "ndarray" /\ (value.is_video \/ value.ndim = 3)

\* C16 as claimed: no image or video tensor is ever passed to
\* StatsAccumulator.add, whatever its key is named.
C16_NoImageInStats ==
    \A c \in stats_added : ~IsImageTensor(c.value)

\* ====================================================== QueryEngine
MaxQueryRows == 2         \* rows of the index table
MaxConstraints == 2       \* filter fields that are not None before refinement

\* camera names, as the pieces of their text
Front == <<"front">>
FrontLeft == <<"front", "_left">>
Wrist == <<"wrist">>

\* ",".join(names)
RECURSIVE JoinNames(_, _)
JoinNames(names, i) ==
    IF i > Len(names) THEN <<>>
    ELSE IF i = Len(names) THEN names[i]
    ELSE names[i] \o <<",">> \o JoinNames(names, i + 1)

\* a shard file of the parent dataset, relative to its data/ or videos/ directory
FlatShard == <<"steps_00000.parquet">>
NestedShard == <<"chunk-000", "steps_00001.parquet">>
FrontVideo == <<"chunk-000", "front_000.mp4">>

\* EpisodeIndexRecord: the columns query and the slicer read (video_offsets as
\* the set of video files it names)
IndexRecords ==
    {[episode_id |-> "ep0", dataset_name |-> "bridge", robot_id |-> "franka",
      task_id |-> 0, task_text |-> <<"pick", "cube">>, num_steps |-> 5,
      camera_set |-> JoinNames(<<Front, Wrist>>, 1), action_space_type |-> "ee_delta",
      invalid |-> FALSE, split |-> "train", parquet_file |-> FlatShard,
      parquet_row_start |-> 0, parquet_row_end |-> 5, video_offsets |-> {FrontVideo}],
     [episode_id |-> "ep1", dataset_name |-> "rt1", robot_id |-> "ur5",
      task_id |-> 1, task_text |-> <<"Place", "cup">>, num_steps |-> 20,
      camera_set |-> JoinNames(<<FrontLeft>>, 1), action_space_type |-> "joint",
      invalid |-> TRUE, split |-> "val", parquet_file |-> NestedShard,
      parquet_row_start |-> 0, parquet_row_end |-> 20, video_offsets |-> {}],
     [episode_id |-> "ep2", dataset_name |-> "rt1", robot_id |-> "franka",
      task_id |-> 1, task_text |-> <<"pick", "Cup">>, num_steps |-> 20,
      camera_set |-> JoinNames(<<Wrist>>, 1), action_space_type |-> "ee_delta",
      invalid |-> FALSE, split |-> "val", parquet_file |-> FlatShard,
      parquet_row_start |-> 5, parquet_row_end |-> 25, video_offsets |-> {}],
     [episode_id |-> "ep3", dataset_name |-> "bridge", robot_id |-> "ur5",
      task_id |-> 0, task_text |-> <<"place", "cube">>, num_steps |-> 5,
      camera_set |-> <<>>, action_space_type |-> "joint",
      invalid |-> TRUE, split |-> "train", parquet_file |-> <<>>,
      parquet_row_start |-> 0, parquet_row_end |-> 0, video_offsets |-> {}]}

QueryTables == UNION {[1..n -> IndexRecords] : n \in 0..MaxQueryRows}

\* QueryFilter: the fields and the values a constraint may take
FilterFields == <<"robot_id", "task_id", "task_text_regex", "min_steps", "max_steps",
                  "camera_set", "action_space_type", "invalid", "split",
                  "dataset_name">>

FilterValues ==
    [robot_id |-> {[kind |-> "str", v |-> "franka"],
                   [kind |-> "list", v |-> <<"franka", "ur5">>],
                   [kind |-> "list", v |-> <<>>]},
     task_id |-> {[kind |-> "int", v |-> 1], [kind |-> "list", v |-> <<0, 1>>]},
     task_text_regex |-> {"CUP"},
     min_steps |-> {6},
     max_steps |-> {19},
     camera_set |-> {Front, Wrist},
     action_space_type |-> {"ee_delta"},
     invalid |-> {FALSE},
     split |-> {"val"},
     dataset_name |-> {"bridge"}]

\* the filters that set at most n of the fields from position i on
RECURSIVE FiltersFrom(_, _)
FiltersFrom(i, n) ==
    IF i > Len(FilterFields) \/ n = 0 THEN {<<>>}
    ELSE FiltersFrom(i + 1, n)
           \cup {(FilterFields[i] :> v) @@ f :
                    v \in FilterValues[FilterFields[i]], f \in FiltersFrom(i + 1, n - 1)}

Filters == {NoFilter} \cup {[given |-> TRUE, fields |-> f] : f \in FiltersFrom(1, MaxConstraints)}

\* str.lower() of a word
Fold(word) ==
    CASE word = "Place" -> "place"
      [] word = "Cup" -> "cup"
      [] word = "CUP" -> "cup"
      [] OTHER -> word

\* re.search(pattern, text, re.IGNORECASE) for a pattern that is one literal word
ReSearch(pattern, text) == \E i \in 1..Len(text) : Fold(text[i]) = Fold(pattern)

\* needle in haystack, for str: a contiguous run of the haystack
IsSubstring(needle, haystack) ==
    \E i \in 0..(Len(haystack) - Len(needle)) :
        \A j \in 1..Len(needle) : haystack[i + j] = needle[j]

\* x in ids, for a list
InList(x, ids) == \E i \in 1..Len(ids) : ids[i] = x

\* ids = [f.robot_id] if isinstance(f.robot_id, str) else f.robot_id (and the
\* same for task_id and int)
Ids(x) == IF x.kind \in {"str", "int"} THEN <<x.v>> ELSE x.v

\* QueryEngine._matches with the last test (dataset_name) left out
MatchesIgnoringDataset(record, f) ==
    LET set(k) == k \in DOMAIN f
    IN IF set("robot_id") /\ ~InList(record.robot_id, Ids(f.robot_id)) THEN FALSE
       ELSE IF set("task_id") /\ ~InList(record.task_id, Ids(f.task_id)) THEN FALSE
       ELSE IF set("task_text_regex") /\ ~ReSearch(f.task_text_regex, record.task_text)
            THEN FALSE
       ELSE IF set("min_steps") /\ record.num_steps < f.min_steps THEN FALSE
       ELSE IF set("max_steps") /\ record.num_steps > f.max_steps THEN FALSE
       ELSE IF set("camera_set") /\ ~IsSubstring(f.camera_set, record.camera_set)
            THEN FALSE
       ELSE IF set("action_space_type")
                 /\ record.action_space_type # f.action_space_type THEN FALSE
       ELSE IF set("invalid") /\ record.invalid # f.invalid THEN FALSE
       ELSE IF set("split") /\ record.split # f.split THEN FALSE
       ELSE TRUE

\* QueryEngine._matches
Matches(record, f) ==
    LET set(k) == k \in DOMAIN f
    IN IF set("robot_id") /\ ~InList(record.robot_id, Ids(f.robot_id)) THEN FALSE
       ELSE IF set("task_id") /\ ~InList(record.task_id, Ids(f.task_id)) THEN FALSE
       ELSE IF set("task_text_regex") /\ ~ReSearch(f.task_text_regex, record.task_text)
            THEN FALSE
       ELSE IF set("min_steps") /\ record.num_steps < f.min_steps THEN FALSE
       ELSE IF set("max_steps") /\ record.num_steps > f.max_steps THEN FALSE
       ELSE IF set("camera_set") /\ ~IsSubstring(f.camera_set, record.camera_set)
            THEN FALSE
       ELSE IF set("action_space_type")
                 /\ record.action_space_type # f.action_space_type THEN FALSE
       ELSE IF set("invalid") /\ record.invalid # f.invalid THEN FALSE
       ELSE IF set("split") /\ record.split # f.split THEN FALSE
       ELSE IF set("dataset_name") /\ record.dataset_name # f.dataset_name THEN FALSE
       ELSE TRUE

\* QueryEngine.query: the rows in index order that the filter lets through
QueryOf(table, filter) ==
    SelectSeq(table, LAMBDA record : ~filter.given \/ Matches(record, filter.fields))

InitQuery ==
    /\ CompilerIdle
    /\ WriterIdle
    /\ VerifyIdle
    /\ FinalizerIdle
    /\ CatalogIdle
    /\ StatsIdle
    /\ SlicerIdle
    /\ q_table \in QueryTables
    /\ q_filter \in Filters
    /\ q_result = <<>>
    /\ q_prev = <<>>
    /\ q_pc = "call"
    /\ RunnerIdle
    /\ QualityIdle
    /\ PipelineIdle
    /\ RoundTripIdle
    /\ AccumulatorIdle
    /\ SplitIdle
    /\ VideoIdle
    /\ ResampleIdle
    /\ ContextIdle

\* engine.query(filter)
Query ==
    /\ q_pc = "call"
    /\ q_result' = QueryOf(q_table, q_filter)
    /\ q_pc' = "returned"
    /\ UNCHANGED <<q_table, q_filter, q_prev>>
    /\ UNCHANGED exceptQuery

\* engine.query(filter2), filter2 being filter with one more field set
Refine ==
    /\ q_pc = "returned"
    /\ q_filter.given
    /\ \E i \in 1..Len(FilterFields) :
          /\ FilterFields[i] \notin DOMAIN q_filter.fields
          /\ \E v \in FilterValues[FilterFields[i]] :
                q_filter' = [given |-> TRUE,
                             fields |-> (FilterFields[i] :> v) @@ q_filter.fields]
    /\ q_prev' = q_result
    /\ q_result' = QueryOf(q_table, q_filter')
    /\ q_pc' = "refined"
    /\ UNCHANGED q_table
    /\ UNCHANGED exceptQuery

NextQuery ==
    \/ Query
    \/ Refine

SpecQuery == InitQuery /\ [][NextQuery]_vars

\* ============================================== claims on SpecQuery
\* what one constraint asks of a record
Satisfies(record, k, v) ==
    CASE k = "robot_id" ->
           IF v.kind = "str" THEN record.robot_id = v.v
           ELSE \E i \in 1..Len(v.v) : v.v[i] = record.robot_id
      [] k = "task_id" ->
           IF v.kind = "int" THEN record.task_id = v.v
           ELSE \E i \in 1..Len(v.v) : v.v[i] = record.task_id
      [] k = "task_text_regex" -> ReSearch(v, record.task_text)
      [] k = "min_steps" -> record.num_steps >= v
      [] k = "max_steps" -> record.num_steps <= v
      [] k = "camera_set" -> IsSubstring(v, record.camera_set)
      [] k = "action_space_type" -> record.action_space_type = v
      [] k = "invalid" -> record.invalid = v
      [] k = "split" -> record.split = v
      [] k = "dataset_name" -> record.dataset_name = v

SatisfiesAll(record, f) == \A k \in DOMAIN f : Satisfies(record, k, f[k])

\* C17: query returns, in index order, exactly the records that satisfy every
\* constraint whose field is not None; with no constraint it returns every
\* record; adding a constraint to the filter adds no record to the result.
C17_QueryConjunction ==
    q_pc \in {"returned", "refined"} =>
        /\ q_result = SelectSeq(q_table,
                                LAMBDA record : SatisfiesAll(record, q_filter.fields))
        /\ (DOMAIN q_filter.fields = {}) => q_result = q_table
        /\ q_pc = "refined" =>
              /\ Len(q_result) <= Len(q_prev)
              /\ \A i \in 1..Len(q_result) :
                    \E j \in 1..Len(q_prev) : q_prev[j] = q_result[i]

C17_Witness ==
    /\ q_pc = "refined"
    /\ Cardinality(DOMAIN q_filter.fields) = 3
    /\ Len(q_table) = 2
    /\ Len(q_prev) = 2
    /\ Len(q_result) = 1
    /\ q_result[1] = q_table[2]

\* the camera names the index writer joined into a camera_set field
RECURSIVE NamesFrom(_, _, _)
NamesFrom(joined, i, name) ==
    IF i > Len(joined) THEN (IF name = <<>> THEN {} ELSE {name})
    ELSE IF joined[i] = ","
           THEN (IF name = <<>> THEN {} ELSE {name}) \cup NamesFrom(joined, i + 1, <<>>)
    ELSE NamesFrom(joined, i + 1, Append(name, joined[i]))

CameraNames(joined) == NamesFrom(joined, 1, <<>>)

\* C37 as claimed: a filter that sets camera_set alone returns exactly the
\* records whose set of camera names has the given name as a member; a name
\* that is only part of another camera's name does not match.
C37_CameraSetMembership ==
    (/\ q_pc = "returned"
     /\ q_filter.given
     /\ DOMAIN q_filter.fields = {"camera_set"})
       => q_result = SelectSeq(q_table,
                               LAMBDA record : q_filter.fields.camera_set
                                                  \in CameraNames(record.camera_set))

\* ================================================ SliceMaterializer
\* a shard file under a dataset root
DataFile(path) == [dir |-> "data", path |-> path]
VideoFile(path) == [dir |-> "videos", path |-> path]

\* the parent dataset: its path and the build id its manifest carries
SourcePath == "parent"
ParentBuildId == "b1"

ParentShards == {DataFile(FlatShard), DataFile(NestedShard), VideoFile(FrontVideo)}

\* the filters materialize is called with: QueryFilter objects, one field set at most
SliceFilters == {[given |-> TRUE, fields |-> f] : f \in FiltersFrom(1, 1)}

\* {r.parquet_file for r in records if r.parquet_file}
ParquetFiles(records) ==
    {records[i].parquet_file : i \in {j \in 1..Len(records) :
                                         records[j].parquet_file # <<>>}}

\* the files of parquet_files that exist under the parent's data/
Copyable(records, source) == {pf \in ParquetFiles(records) : DataFile(pf) \in source}

\* shutil.copy2(src, data_dir / pf) raises FileNotFoundError when pf names a
\* directory below data/, since only data_dir itself was created
CopyRaises(pf) == Len(pf) > 1

\* _write_view_index builds the schema_version column from r.schema_version,
\* an attribute EpisodeIndexRecord does not have: AttributeError on the first
\* record, before anything is written
ViewIndexRaises(records) == records # <<>>

\* _write_view_index for an empty record list: the empty table
WriteViewIndex(records) == [exists |-> TRUE, rows |-> records]

\* SliceMaterializer._filter_to_dict: the fields that are not None
FilterToDict(filter) == [k \in DOMAIN filter.fields |-> filter.fields[k]]

\* SliceManifest(...).to_dict() dumped to slice_manifest.json
SliceManifest(parent_build_id, filter, records, mode) ==
    [exists |-> TRUE,
     parent_dataset |-> SourcePath,
     parent_build_id |-> parent_build_id,
     query_filter |-> FilterToDict(filter),
     episode_ids |-> [i \in 1..Len(records) |-> records[i].episode_id],
     mode |-> mode]

InitSlice ==
    /\ CompilerIdle
    /\ WriterIdle
    /\ VerifyIdle
    /\ FinalizerIdle
    /\ CatalogIdle
    /\ StatsIdle
    /\ q_table \in QueryTables
    /\ q_filter \in SliceFilters
    /\ q_result = <<>>
    /\ q_prev = <<>>
    /\ q_pc = "idle"
    /\ s_mode \in {"view", "copy"}
    /\ s_parent_build_id \in {"", ParentBuildId}
    /\ s_source_files \in SUBSET ParentShards
    /\ s_source_before = s_source_files
    /\ s_out_files = {}
    /\ s_out_index = NoFile
    /\ s_manifest = NoFile
    /\ s_pc = "call"
    /\ RunnerIdle
    /\ QualityIdle
    /\ PipelineIdle
    /\ RoundTripIdle
    /\ AccumulatorIdle
    /\ SplitIdle
    /\ VideoIdle
    /\ ResampleIdle
    /\ ContextIdle

\* materialize(filter, slice_id, parent_build_id)
Materialize ==
    /\ s_pc = "call"
    /\ q_result' = QueryOf(q_table, q_filter)
    /\ LET records == q_result'
           copyable == Copyable(records, s_source_files)
           flat == {pf \in copyable : ~CopyRaises(pf)}
       IN IF s_mode = "copy" /\ flat # copyable
          THEN \* the loop over the set stops at a nested file; the flat files
               \* before it in iteration order are already copied
               /\ \E copied \in SUBSET flat :
                     s_out_files' = {DataFile(pf) : pf \in copied}
               /\ s_pc' = "raised"
               /\ UNCHANGED <<s_out_index, s_manifest>>
          ELSE /\ s_out_files' = (IF s_mode = "copy"
                                    THEN {DataFile(pf) : pf \in flat} ELSE {})
               /\ IF ViewIndexRaises(records)
                  THEN /\ s_pc' = "raised"
                       /\ UNCHANGED <<s_out_index, s_manifest>>
                  ELSE /\ s_out_index' = WriteViewIndex(records)
                       /\ s_manifest' = SliceManifest(s_parent_build_id, q_filter,
                                                      records, s_mode)
                       /\ s_pc' = "returned"
    /\ UNCHANGED <<q_table, q_filter, q_prev, q_pc>>
    /\ UNCHANGED <<s_mode, s_parent_build_id, s_source_files, s_source_before>>
    /\ UNCHANGED exceptSlicer

NextSlice == Materialize

SpecSlice == InitSlice /\ [][NextSlice]_vars

\* ============================================== claims on SpecSlice
\* the call has ended, by return or by exception
Ended == s_pc \in {"returned", "raised"}

\* the rows the filter matches, which the slice's index table is to hold
Matched == QueryOf(q_table, q_filter)

\* C18 as claimed: in view mode materialize writes an index table holding
\* exactly the matched rows with the parent's shard locators, puts no shard
\* file under the output root and leaves the parent unchanged.
C18_ViewWritesIndexOnly ==
    (Ended /\ s_mode = "view") =>
        /\ s_out_index.exists
        /\ s_out_index.rows = Matched
        /\ s_out_files = {}
        /\ s_source_files = s_source_before

\* C19 as claimed: after materialize in copy mode every shard file a row of
\* the slice references (and the parent holds) exists under the output root.
C19_CopyHasEveryShard ==
    (Ended /\ s_mode = "copy") =>
        \A i \in 1..Len(Matched) :
            /\ (Matched[i].parquet_file # <<>>
                  /\ DataFile(Matched[i].parquet_file) \in s_source_files)
                 => DataFile(Matched[i].parquet_file) \in s_out_files
            /\ \A v \in Matched[i].video_offsets :
                  VideoFile(v) \in s_source_files => VideoFile(v) \in s_out_files

\* C20 as claimed: in both modes the slice manifest records the parent
\* dataset, the parent's build id and the constraints that were set, and its
\* episode_ids are the episode ids of the slice's index rows, in order.
C20_ManifestProvenance ==
    Ended =>
        /\ s_manifest.exists
        /\ s_manifest.parent_dataset = SourcePath
        /\ s_manifest.parent_build_id = ParentBuildId
        /\ s_manifest.query_filter = q_filter.fields
        /\ s_out_index.exists
        /\ s_manifest.episode_ids =
              [i \in 1..Len(s_out_index.rows) |-> s_out_index.rows[i].episode_id]

\* ---------------------------------------------------------------------------
\* ValidationRunner (validators/reports.py)
\* ---------------------------------------------------------------------------

\* validators registered on one runner
MaxValidators == 2
\* validate_episode calls made on one runner
MaxRuns == 2

ExecutionMode == {"fail_fast", "quarantine", "collect"}

RECURSIVE SeqsUpTo(_, _)
SeqsUpTo(S, n) ==
    IF n = 0 THEN {<<>>}
    ELSE LET shorter == SeqsUpTo(S, n - 1)
         IN  shorter \cup {Append(s, x) : s \in shorter, x \in S}

\* what the registered validators return for one episode, in registration order
ValidatorOutputs == SeqsUpTo(OtherFindings, MaxValidators)

\* fail-fast test without the fail_on_warn branch
FailFastAbortOnErrorOnly(mode, fail_on_warn, fs) ==
    mode = "fail_fast" /\ HasError(fs)

\* the fail-fast test made after each validator
FailFastAbort(mode, fail_on_warn, fs) ==
    /\ mode = "fail_fast"
    /\ HasError(fs) \/ (fail_on_warn /\ HasWarn(fs))

\* the validator loop: all_findings grows, and a fail-fast abort leaves the loop
RECURSIVE RunValidators(_, _, _, _, _)
RunValidators(outputs, i, all_findings, mode, fail_on_warn) ==
    IF i > Len(outputs)
    THEN [raised |-> FALSE, ran |-> Len(outputs), findings |-> all_findings]
    ELSE LET returned == outputs[i]
             extended == all_findings \o returned
         IN  IF FailFastAbort(mode, fail_on_warn, returned)
             THEN [raised |-> TRUE, ran |-> i, findings |-> extended]
             ELSE RunValidators(outputs, i + 1, extended, mode, fail_on_warn)

\* quarantine test that does not look at the mode
IsQuarantinedAnyMode(mode, has_error, has_warn) == has_error \/ has_warn

IsQuarantined(mode, has_error, has_warn) ==
    has_error \/ (mode = "quarantine" /\ has_warn)

InitRunner ==
    /\ CompilerIdle
    /\ WriterIdle
    /\ VerifyIdle
    /\ FinalizerIdle
    /\ CatalogIdle
    /\ StatsIdle
    /\ QueryIdle
    /\ SlicerIdle
    /\ r_config \in [mode : ExecutionMode, fail_on_warn : BOOLEAN]
    /\ r_outputs = <<>>
    /\ r_result = NoRun
    /\ r_report = NewReport
    /\ QualityIdle
    /\ PipelineIdle
    /\ RoundTripIdle
    /\ AccumulatorIdle
    /\ SplitIdle
    /\ VideoIdle
    /\ ResampleIdle
    /\ ContextIdle

\* ValidationRunner.validate_episode: the report gets the episode on both exits
RunnerValidateEpisode ==
    /\ r_report.total_episodes < MaxRuns
    /\ \E outputs \in ValidatorOutputs :
        LET run == RunValidators(outputs, 1, <<>>, r_config.mode,
                                 r_config.fail_on_warn)
            has_error == HasError(run.findings)
            has_warn == HasWarn(run.findings)
        IN  /\ r_outputs' = outputs
            /\ r_report' = AddEpisodeResult(r_report, run.findings)
            /\ r_result' =
                 IF run.raised
                 THEN [pc |-> "raised", ran |-> run.ran,
                       findings |-> run.findings, is_valid |-> FALSE,
                       is_quarantined |-> FALSE]
                 ELSE [pc |-> "returned", ran |-> run.ran,
                       findings |-> run.findings,
                       is_valid |-> ~has_error /\ ~has_warn,
                       is_quarantined |->
                           IsQuarantined(r_config.mode, has_error, has_warn)]
    /\ UNCHANGED <<r_config, exceptRunner>>

NextRunner == RunnerValidateEpisode

SpecRunner == InitRunner /\ [][NextRunner]_vars

\* the findings of the first n validators, in order
RECURSIVE Flatten(_, _)
Flatten(outputs, n) ==
    IF n = 0 THEN <<>> ELSE Flatten(outputs, n - 1) \o outputs[n]

\* validator i of the last call returned what fail-fast aborts on
Aborting(i) ==
    \/ HasError(r_outputs[i])
    \/ r_config.fail_on_warn /\ HasWarn(r_outputs[i])

\* C21: validate_episode raises exactly when the mode is FAIL_FAST and some
\* validator returns an ERROR (or a WARN with fail_on_warn); it raises at the
\* first such validator, the later ones not run; otherwise it returns the
\* findings of all validators.
C21_RaisesIffFailFast ==
    r_result.pc # "idle" =>
        /\ r_result.pc = "raised" <=>
              /\ r_config.mode = "fail_fast"
              /\ \E i \in 1..Len(r_outputs) : Aborting(i)
        /\ r_result.pc = "raised" =>
              /\ r_result.ran \in 1..Len(r_outputs)
              /\ Aborting(r_result.ran)
              /\ \A j \in 1..(r_result.ran - 1) : ~Aborting(j)
              /\ r_result.findings = Flatten(r_outputs, r_result.ran)
        /\ r_result.pc = "returned" =>
              /\ r_result.ran = Len(r_outputs)
              /\ r_result.findings = Flatten(r_outputs, Len(r_outputs))

\* a fail-fast runner with fail_on_warn stopped at a WARN of its first
\* validator although a second was registered
C21_Witness ==
    /\ r_result.pc = "raised"
    /\ r_config.fail_on_warn
    /\ Len(r_outputs) = 2
    /\ r_result.ran = 1
    /\ ~HasError(r_outputs[1])
    /\ HasWarn(r_outputs[1])

\* C22: a returned episode with a WARN and no ERROR is quarantined and not
\* valid in QUARANTINE mode and not quarantined in COLLECT mode; one with an
\* ERROR is quarantined in both.
C22_QuarantineOnWarn ==
    r_result.pc = "returned" =>
        LET has_error == HasError(Flatten(r_outputs, Len(r_outputs)))
            has_warn == HasWarn(Flatten(r_outputs, Len(r_outputs)))
        IN  /\ r_config.mode = "quarantine" /\ has_warn /\ ~has_error
                  => r_result.is_quarantined /\ ~r_result.is_valid
            /\ r_config.mode = "collect" /\ has_warn /\ ~has_error
                  => ~r_result.is_quarantined
            /\ r_config.mode \in {"quarantine", "collect"} /\ has_error
                  => r_result.is_quarantined

\* a quarantine-mode runner returned an episode with a WARN and no ERROR
C22_Witness ==
    /\ r_result.pc = "returned"
    /\ r_config.mode = "quarantine"
    /\ HasWarn(r_result.findings)
    /\ ~HasError(r_result.findings)
    /\ r_result.is_quarantined

\* ---------------------------------------------------------------------------
\* TimestampValidator and ActionSanityValidator (validators/structural.py)
\* ---------------------------------------------------------------------------

\* steps of an episode handed to a structural validator
MaxQualitySteps == 2

\* TimestampValidator.max_gap_factor, ActionSanityValidator.sigma_threshold
MaxGapFactor == 2
SigmaThreshold == 5

\* ActionSanityValidator.bounds
ActionMin == -10
ActionMax == 10

\* timestamps are counted in tenths of a second
Timestamps == {0, 1, 5}

\* a float32 component: a finite value or NaN
Scalars == {[finite |-> TRUE, v |-> 0], [finite |-> TRUE, v |-> 20],
            [finite |-> FALSE, v |-> 0]}

ActionDims == 1..2

\* step.action: None or a vector
NoAction == [is_none |-> TRUE, a |-> <<>>]

ActionVectors ==
    {NoAction} \cup {[is_none |-> FALSE, a |-> a] :
                        a \in UNION {[1..d -> Scalars] : d \in ActionDims}}

QualitySteps == [timestamp : Timestamps, action : ActionVectors]

QualityEpisodes == SeqsUpTo(QualitySteps, MaxQualitySteps)

ControlRates == {0, 10}

\* the loop over steps[1:], from the step at python index i
RECURSIVE TimestampFindings(_, _, _)
TimestampFindings(steps, i, control_rate) ==
    IF i >= Len(steps) THEN <<>>
    ELSE LET prev_ts == steps[i].timestamp
             curr_ts == steps[i + 1].timestamp
             gap == curr_ts - prev_ts
             \* gap / 10 s > max_gap_factor * (1.0 / control_rate) s
         IN  (IF curr_ts < prev_ts
              THEN <<Finding(ERROR, "Non-monotonic timestamp", i)>> ELSE <<>>)
             \o (IF gap * control_rate > MaxGapFactor * 10
                 THEN <<Finding(WARN, "Large timestamp gap", i)>> ELSE <<>>)
             \o TimestampFindings(steps, i + 1, control_rate)

\* TimestampValidator.validate_episode: 1.0 / control_rate divides by zero
\* when neither the spec nor the validator has a rate
TimestampValidate(steps, rates) ==
    LET control_rate == IF rates.spec # 0 THEN rates.spec ELSE rates.validator
    IN  IF Len(steps) < 2
        THEN [pc |-> "returned", findings |-> <<>>]
        ELSE IF control_rate = 0
        THEN [pc |-> "raised", findings |-> <<>>]
        ELSE [pc |-> "returned",
              findings |-> TimestampFindings(steps, 1, control_rate)]

\* the python indices of the steps that have an action
WithAction(steps) == {i \in 1..Len(steps) : ~steps[i].action.is_none}

\* np.stack needs arrays of one shape
StackRaises(steps) ==
    \E i, j \in WithAction(steps) :
        Len(steps[i].action.a) # Len(steps[j].action.a)

\* np.any(a < min_val) or np.any(a > max_val); a comparison with NaN is False
OutOfBounds(a) ==
    \E k \in 1..Len(a) : a[k].finite /\ (a[k].v < ActionMin \/ a[k].v > ActionMax)

RECURSIVE SquaresTo(_, _, _, _, _)
SquaresTo(steps, idx, k, total, n) ==
    IF idx = {} THEN 0
    ELSE LET i == CHOOSE x \in idx : TRUE
             d == n * steps[i].action.a[k].v - total
         IN  d * d + SquaresTo(steps, idx \ {i}, k, total, n)

RECURSIVE TotalOf(_, _, _)
TotalOf(steps, idx, k) ==
    IF idx = {} THEN 0
    ELSE LET i == CHOOSE x \in idx : TRUE
         IN  steps[i].action.a[k].v + TotalOf(steps, idx \ {i}, k)

\* np.any(|a - mean| / std > sigma_threshold) for the action of step i, with
\* mean and std over axis 0 and std 1.0 where it is below 1e-8; a column that
\* holds a NaN has a NaN mean and its comparison is False
IsOutlier(steps, i) ==
    LET idx == WithAction(steps)
        n == Cardinality(idx)
    IN  \E k \in 1..Len(steps[i].action.a) :
            /\ \A j \in idx : steps[j].action.a[k].finite
            /\ LET total == TotalOf(steps, idx, k)
                   squares == SquaresTo(steps, idx, k, total, n)
                   d == n * steps[i].action.a[k].v - total
               IN  /\ squares > 0
                   /\ n * d * d > SigmaThreshold * SigmaThreshold * squares

\* the first step a per-step check reports, as a finding list ("break")
FirstReport(steps, Hit(_), message) ==
    LET hits == {i \in WithAction(steps) : Hit(i)}
    IN  IF hits = {} THEN <<>>
        ELSE <<Finding(WARN, message,
                       (CHOOSE i \in hits : \A j \in hits : i <= j) - 1)>>

\* ActionSanityValidator.validate_episode
ActionSanityValidate(steps) ==
    IF WithAction(steps) = {}
    THEN [pc |-> "returned", findings |-> <<>>]
    ELSE IF StackRaises(steps)
    THEN [pc |-> "raised", findings |-> <<>>]
    ELSE LET Bounds(i) == OutOfBounds(steps[i].action.a)
             Outlier(i) == IsOutlier(steps, i)
             nonfinite == \E i \in WithAction(steps) :
                              \E k \in 1..Len(steps[i].action.a) :
                                  ~steps[i].action.a[k].finite
         IN  [pc |-> "returned",
              findings |->
                  FirstReport(steps, Bounds, "Action out of bounds")
                  \o (IF nonfinite
                      THEN <<Finding(ERROR, "Action contains NaN or Inf", -1)>>
                      ELSE <<>>)
                  \o FirstReport(steps, Outlier, "Action outlier detected")]

InitQuality ==
    /\ CompilerIdle
    /\ WriterIdle
    /\ VerifyIdle
    /\ FinalizerIdle
    /\ CatalogIdle
    /\ StatsIdle
    /\ QueryIdle
    /\ SlicerIdle
    /\ RunnerIdle
    /\ dq_episode \in QualityEpisodes
    /\ dq_rates \in [spec : ControlRates, validator : ControlRates]
    /\ dq_outcome = NoOutcome
    /\ PipelineIdle
    /\ RoundTripIdle
    /\ AccumulatorIdle
    /\ SplitIdle
    /\ VideoIdle
    /\ ResampleIdle
    /\ ContextIdle

ValidateTimestamps ==
    /\ dq_outcome.pc = "idle"
    /\ LET out == TimestampValidate(dq_episode, dq_rates)
       IN  dq_outcome' = [validator |-> "timestamps", pc |-> out.pc,
                          findings |-> out.findings]
    /\ UNCHANGED <<dq_episode, dq_rates, exceptQuality>>

ValidateActionSanity ==
    /\ dq_outcome.pc = "idle"
    /\ LET out == ActionSanityValidate(dq_episode)
       IN  dq_outcome' = [validator |-> "action_sanity", pc |-> out.pc,
                          findings |-> out.findings]
    /\ UNCHANGED <<dq_episode, dq_rates, exceptQuality>>

NextQuality == ValidateTimestamps \/ ValidateActionSanity

SpecQuality == InitQuality /\ [][NextQuality]_vars

\* C23: for every episode, validate_episode returns a list of findings and
\* does not raise.
C23_ValidatorsNeverRaise == dq_outcome.pc # "raised"

\* ---------------------------------------------------------------------------
\* A compile run whose chain holds TaskTextTransform and SelectCameraTransform
\* (transforms/task.py, transforms/camera.py, transforms/base.py, compiler.py)
\* ---------------------------------------------------------------------------

\* transforms in one chain, episodes the adapter yields in one run
MaxChain == 2
MaxPipelineEpisodes == 2

\* a text is a sequence of tokens: words and whitespace characters
IsSpace(c) == c \in {" ", "\t"}

\* re.sub(r"\s+", " ", text): every run of whitespace becomes one blank
RECURSIVE CollapseFrom(_, _)
CollapseFrom(text, i) ==
    IF i > Len(text) THEN <<>>
    ELSE IF IsSpace(text[i])
         THEN (IF i > 1 /\ IsSpace(text[i - 1]) THEN <<>> ELSE <<" ">>)
              \o CollapseFrom(text, i + 1)
         ELSE <<text[i]>> \o CollapseFrom(text, i + 1)

\* str.strip()
RECURSIVE Strip(_)
Strip(text) ==
    IF text = <<>> THEN <<>>
    ELSE IF IsSpace(Head(text)) THEN Strip(Tail(text))
    ELSE IF IsSpace(text[Len(text)]) THEN Strip(SubSeq(text, 1, Len(text) - 1))
    ELSE text

\* normalize_task_text; None and "" are both the empty text, the words are
\* plain ASCII, which NFKC leaves alone
NormalizeTaskText(text) == Strip(CollapseFrom(text, 1))

\* the transforms a chain is built from
TaskTextTransforms ==
    {[name |-> "TaskTextTransform", default_text |-> d[1], allow_empty |-> d[2]] :
        d \in {<< <<>>, FALSE >>, << <<>>, TRUE >>,
               << <<"unknown">>, FALSE >>, << <<"todo">>, FALSE >>}}

SelectCamera ==
    [name |-> "SelectCameraTransform", default_text |-> <<>>, allow_empty |-> FALSE]

Chains == SeqsUpTo(TaskTextTransforms \cup {SelectCamera}, MaxChain)

\* SelectCameraTransform.fallback_order, as far as the cameras below go
FallbackOrder == <<"front">>

\* sorted(available_cameras)
SortedCameras == <<"front", "wrist">>

\* the episodes an adapter yields: task_id -1 is None, canonical "" is no
\* observation.images.canonical key; cameras are the observation.images.* keys
SourceEpisodes ==
    [task_text : {<<>>, <<"pick">>},
     language  : {<<>>, <<"\t", "place", " ">>},
     task_id   : {-1},
     cameras   : {{}, {"wrist"}, {"front", "wrist"}},
     canonical : {""},
     invalid   : {FALSE}]

NoSourceEpisode ==
    [task_text |-> <<>>, language |-> <<>>, task_id |-> -1, cameras |-> {},
     canonical |-> "", invalid |-> FALSE]

\* TaskTextTransform._extract_task_text; episode_metadata is empty
ExtractTaskText(e) ==
    IF e.task_text # <<>> THEN e.task_text
    ELSE IF e.language # <<>> THEN e.language
    ELSE <<>>

\* TaskTextTransform.transform_episode
TaskTextTransformEpisode(t, e, task_catalog) ==
    LET normalized == NormalizeTaskText(ExtractTaskText(e))
        task_text == IF normalized = <<>> THEN t.default_text ELSE normalized
        added == CatalogAdd(task_catalog, task_text)
    IN  IF task_text = <<>> /\ ~t.allow_empty
        THEN [raised |-> TRUE, episode |-> e, catalog |-> task_catalog]
        ELSE IF task_text = <<>>
        THEN [raised |-> FALSE, catalog |-> task_catalog,
              episode |-> [e EXCEPT !.task_id = 0, !.task_text = task_text]]
        ELSE [raised |-> FALSE,
              catalog |-> [tasks |-> added.tasks, reverse |-> added.reverse,
                           next_id |-> added.next_id],
              episode |-> [e EXCEPT !.task_id = added.returned,
                                    !.task_text = task_text]]

\* the first name of an order that is among the cameras, "" if there is none
RECURSIVE FirstIn(_, _, _)
FirstIn(order, i, cameras) ==
    IF i > Len(order) THEN ""
    ELSE IF order[i] \in cameras THEN order[i]
    ELSE FirstIn(order, i + 1, cameras)

\* SelectCameraTransform._find_camera with camera_name None and no
\* spec.camera_names; "" is None
FindCamera(e) ==
    LET preferred == FirstIn(FallbackOrder, 1, e.cameras)
    IN  IF preferred # "" THEN preferred
        ELSE FirstIn(SortedCameras, 1, e.cameras)

\* SelectCameraTransform.transform_episode
SelectCameraTransformEpisode(e, task_catalog) ==
    LET camera == FindCamera(e)
    IN  [raised |-> FALSE, catalog |-> task_catalog,
         episode |-> IF camera = "" THEN e ELSE [e EXCEPT !.canonical = camera]]

TransformEpisodeBy(t, e, task_catalog) ==
    IF t.name = "TaskTextTransform"
    THEN TaskTextTransformEpisode(t, e, task_catalog)
    ELSE SelectCameraTransformEpisode(e, task_catalog)

\* TransformChain.transform_episode: an exception leaves the loop
RECURSIVE ChainFrom(_, _, _, _)
ChainFrom(chain, i, e, task_catalog) ==
    IF i > Len(chain) THEN [raised |-> FALSE, episode |-> e, catalog |-> task_catalog]
    ELSE LET out == TransformEpisodeBy(chain[i], e, task_catalog)
         IN  IF out.raised THEN out
             ELSE ChainFrom(chain, i + 1, out.episode, out.catalog)

Reversed(seq) == [i \in 1..Len(seq) |-> seq[Len(seq) + 1 - i]]

\* a chain that runs its transforms last to first
TransformChainReversed(chain, e, task_catalog) ==
    ChainFrom(Reversed(chain), 1, e, task_catalog)

TransformChainEpisode(chain, e, task_catalog) == ChainFrom(chain, 1, e, task_catalog)

\* TransformChain.names
ChainNamesOf(chain) == [i \in 1..Len(chain) |-> chain[i].name]

NoLast ==
    [outcome |-> "none", source |-> NoSourceEpisode, out |-> NoSourceEpisode,
     task_index |-> -1]

InitPipeline ==
    /\ CompilerIdle
    /\ WriterIdle
    /\ VerifyIdle
    /\ FinalizerIdle
    /\ CatalogIdle
    /\ StatsIdle
    /\ QueryIdle
    /\ SlicerIdle
    /\ RunnerIdle
    /\ QualityIdle
    /\ p_chain \in Chains
    /\ p_pc = "start"
    /\ p_pipeline = <<>>
    /\ p_catalog = NewCatalog
    /\ p_tasks = {}
    /\ p_tasks_jsonl = <<>>
    /\ p_pulled = 0
    /\ p_last = NoLast
    /\ RoundTripIdle
    /\ AccumulatorIdle
    /\ SplitIdle
    /\ VideoIdle
    /\ ResampleIdle
    /\ ContextIdle

\* compile up to the loop: probe, transform_pipeline, writer.begin
PipelineBegin ==
    /\ p_pc = "start"
    /\ p_pc' = "loop"
    /\ p_pipeline' = ChainNamesOf(p_chain)
    /\ p_tasks' = {}
    /\ UNCHANGED <<p_chain, p_catalog, p_tasks_jsonl, p_pulled, p_last,
                   exceptPipeline>>

\* one iteration of the compile loop with validation.fail_fast off; severity
\* is the worst severity the validators find in the transformed episode
PipelineEpisode ==
    /\ p_pc = "loop"
    /\ p_pulled < MaxPipelineEpisodes
    /\ \E e \in SourceEpisodes, severity \in Severity :
        LET run == TransformChainEpisode(p_chain, e, p_catalog)
            written == [run.episode EXCEPT !.invalid = (severity = WARN)]
            known == GetOrCreateTask(p_tasks, written.task_text)
        IN  /\ p_pulled' = p_pulled + 1
            /\ p_catalog' = run.catalog
            /\ IF run.raised
               THEN /\ p_pc' = "aborted"
                    /\ p_last' = [outcome |-> "raised", source |-> e, out |-> e,
                                  task_index |-> -1]
                    /\ UNCHANGED p_tasks
               ELSE IF severity = ERROR
               THEN /\ p_last' = [outcome |-> "rejected", source |-> e,
                                  out |-> run.episode, task_index |-> -1]
                    /\ UNCHANGED <<p_pc, p_tasks>>
               ELSE /\ p_last' = [outcome |-> "written", source |-> e,
                                  out |-> written,
                                  task_index |-> TaskId(known, written.task_text)]
                    /\ p_tasks' = known
                    /\ UNCHANGED p_pc
    /\ UNCHANGED <<p_chain, p_pipeline, p_tasks_jsonl, exceptPipeline>>

\* the end of compile: writer.finalize writes meta/tasks.jsonl
PipelineFinalize ==
    /\ p_pc = "loop"
    /\ p_pc' = "done"
    /\ p_tasks_jsonl' = TasksJsonl(p_tasks, 0)
    /\ UNCHANGED <<p_chain, p_pipeline, p_catalog, p_tasks, p_pulled, p_last,
                   exceptPipeline>>

NextPipeline == PipelineBegin \/ PipelineEpisode \/ PipelineFinalize

SpecPipeline == InitPipeline /\ [][NextPipeline]_vars

\* C24: no transform of the chain raises, so no compile run is aborted by a
\* transform.
C24_TransformsNeverRaise == p_pc # "aborted"

\* the episode and the catalog after the chain's first n transforms, in order
RECURSIVE Rewritten(_, _, _, _)
Rewritten(chain, n, e, before) ==
    IF n = 0 THEN [episode |-> e, catalog |-> before]
    ELSE LET prev == Rewritten(chain, n - 1, e, before)
             out == TransformEpisodeBy(chain[n], prev.episode, prev.catalog)
         IN  [episode |-> out.episode, catalog |-> out.catalog]

\* C25: once compile has probed, transform_pipeline holds the names of the
\* chain's transforms in chain order, and every episode that went through the
\* chain is the source episode rewritten by those transforms in that order,
\* each one given the output of the one before.
C25_PipelineInOrder ==
    [][/\ p_pc' # "start" =>
            /\ Len(p_pipeline') = Len(p_chain)
            /\ \A i \in 1..Len(p_chain) : p_pipeline'[i] = p_chain[i].name
       /\ p_pulled' # p_pulled /\ p_last'.outcome \in {"written", "rejected"} =>
            [p_last'.out EXCEPT !.invalid = FALSE]
                = Rewritten(p_chain, Len(p_chain), p_last'.source, p_catalog).episode
      ]_vars

\* a finished run whose chain substitutes "unknown" before "todo" wrote an
\* episode without a task text as "unknown"
C25_Witness ==
    /\ p_pc = "done"
    /\ Len(p_chain) = 2
    /\ p_chain[1].default_text = <<"unknown">>
    /\ p_chain[2].default_text = <<"todo">>
    /\ p_pipeline = <<"TaskTextTransform", "TaskTextTransform">>
    /\ p_last.outcome = "written"
    /\ p_last.source.task_text = <<>>
    /\ p_last.source.language = <<>>
    /\ p_last.out.task_text = <<"unknown">>

\* C30: in a run whose chain holds a TaskTextTransform, the task index the
\* writer records for a written episode, and lists in meta/tasks.jsonl with
\* the episode's text, is the episode's task_id, the id the task catalog
\* holds for that text.
C30_TaskIndexIsTaskId ==
    /\ \E i \in 1..Len(p_chain) : p_chain[i].name = "TaskTextTransform"
    /\ p_last.outcome = "written"
    => /\ p_last.task_index = p_last.out.task_id
       /\ p_last.out.task_text \in DOMAIN p_catalog.tasks
       /\ p_catalog.tasks[p_last.out.task_text] = p_last.out.task_id
       /\ p_pc = "done" =>
            \E j \in 1..Len(p_tasks_jsonl) :
                /\ p_tasks_jsonl[j].task_index = p_last.out.task_id
                /\ p_tasks_jsonl[j].task = p_last.out.task_text

\* ---------------------------------------------------------------------------
\* to_dict and from_dict (schema/step.py, schema/episode.py, schema/spec.py,
\* schema/tasks.py)
\* ---------------------------------------------------------------------------

\* steps of a serialized episode
MaxRoundTripSteps == 2

\* An ndarray is its dtype and its shape; tolist and np.array keep the numbers
\* (a float32 or a uint8 is exactly a python float or int), so the elements
\* are left out. An optional value is a tuple of length 0 (None) or 1.
Dtypes == {"float32", "float64", "uint8"}
Shapes == {<<>>, <<2>>, <<0, 3>>}

Ndarrays == [type : {"ndarray"}, dtype : Dtypes, shape : Shapes]

\* an observation.language value
Text == [type |-> "str", dtype |-> "", shape |-> <<>>]

\* the python type of the elements tolist returns
PyType(dtype) == IF dtype = "uint8" THEN "int" ELSE "float"

\* the nesting of the list: the dimensions up to the first empty one
RECURSIVE ListDims(_)
ListDims(shape) ==
    IF shape = <<>> THEN <<>>
    ELSE IF Head(shape) = 0 THEN <<0>>
    ELSE <<Head(shape)>> \o ListDims(Tail(shape))

\* ndarray.tolist(): a 0-d array gives a python scalar, otherwise nested
\* lists, which hold no element when a dimension is 0
ToList(a) ==
    IF a.shape = <<>>
    THEN [type |-> PyType(a.dtype), dtype |-> "", shape |-> <<>>]
    ELSE [type |-> "list",
          dtype |-> IF \E i \in 1..Len(a.shape) : a.shape[i] = 0
                    THEN "" ELSE PyType(a.dtype),
          shape |-> ListDims(a.shape)]

\* np.array(value) of a list or a python scalar: the default dtype for python
\* ints is int64, for floats and for no elements float64
NpArray(l) ==
    [type |-> "ndarray",
     dtype |-> IF l.type = "int" \/ l.dtype = "int" THEN "int64" ELSE "float64",
     shape |-> l.shape]

\* the steps that are serialized
ObservationsOf(values) ==
    UNION {[keys -> values] : keys \in SUBSET {"observation.state"}}

RoundTripSteps ==
    [is_first : BOOLEAN, is_last : BOOLEAN, is_terminal : BOOLEAN,
     timestamp : {0, 1},
     observation : ObservationsOf(Ndarrays \cup {Text}),
     action : {<<>>} \cup {<<a>> : a \in Ndarrays},
     reward : {<<>>, <<1>>},
     discount : {<<>>, <<1>>},
     step_metadata : {<<>>}]

\* Step.to_dict
StepToDict(step) ==
    [is_first |-> step.is_first,
     is_last |-> step.is_last,
     is_terminal |-> step.is_terminal,
     timestamp |-> step.timestamp,
     observation |->
         [key \in DOMAIN step.observation |->
             IF step.observation[key].type = "ndarray"
             THEN ToList(step.observation[key])
             ELSE step.observation[key]],
     step_metadata |-> step.step_metadata,
     action |-> IF step.action # <<>> THEN <<ToList(step.action[1])>> ELSE <<>>,
     reward |-> step.reward,
     discount |-> step.discount]

\* Step.from_dict: only a list becomes an array in an observation, the action
\* always does
StepFromDict(data) ==
    [is_first |-> data.is_first,
     is_last |-> data.is_last,
     is_terminal |-> data.is_terminal,
     timestamp |-> data.timestamp,
     observation |->
         [key \in DOMAIN data.observation |->
             IF data.observation[key].type = "list"
             THEN NpArray(data.observation[key])
             ELSE data.observation[key]],
     action |-> IF data.action # <<>> THEN <<NpArray(data.action[1])>> ELSE <<>>,
     reward |-> data.reward,
     discount |-> data.discount,
     step_metadata |-> data.step_metadata]

\* the steps of the serialized episodes
EpisodeSteps ==
    {s \in RoundTripSteps :
        /\ ~s.is_terminal /\ s.timestamp = 0 /\ s.reward = <<>> /\ s.discount = <<>>
        /\ s.observation \in ObservationsOf({[type |-> "ndarray",
                                              dtype |-> "float64", shape |-> <<2>>]})
        /\ s.action \in {<<>>, <<[type |-> "ndarray", dtype |-> "float32",
                                  shape |-> <<2>>]>>}}

\* the episodes that can be constructed
RoundTripEpisodes ==
    {e \in [episode_id : {"ep0"}, dataset_id : {"ds"},
            steps : SeqsUpTo(EpisodeSteps, MaxRoundTripSteps),
            task_id : {0, 1}, task_text : {"", "pick"}, invalid : BOOLEAN,
            episode_metadata : {<<>>}] :
        PostInitOK(e.steps, e.invalid)}

\* Episode.to_dict; duration is steps[-1].timestamp - steps[0].timestamp
EpisodeToDict(e) ==
    [episode_id |-> e.episode_id,
     dataset_id |-> e.dataset_id,
     task_id |-> e.task_id,
     task_text |-> e.task_text,
     invalid |-> e.invalid,
     num_steps |-> Len(e.steps),
     duration |-> IF e.steps = <<>> THEN 0
                  ELSE e.steps[Len(e.steps)].timestamp - e.steps[1].timestamp,
     episode_metadata |-> e.episode_metadata,
     steps |-> [i \in 1..Len(e.steps) |-> StepToDict(e.steps[i])]]

\* Episode.from_dict; the constructor runs __post_init__
EpisodeFromDict(data) ==
    LET steps == [i \in 1..Len(data.steps) |-> StepFromDict(data.steps[i])]
    IN  IF PostInitOK(steps, data.invalid)
        THEN [raised |-> FALSE,
              episode |-> [episode_id |-> data.episode_id,
                           dataset_id |-> data.dataset_id,
                           steps |-> steps,
                           task_id |-> data.task_id,
                           task_text |-> data.task_text,
                           invalid |-> data.invalid,
                           episode_metadata |-> data.episode_metadata]]
        ELSE [raised |-> TRUE]

\* FeatureSpec: shape is a tuple in the object and a list in the dict
FeatureSpecs ==
    [dtype : {"float32", "uint8"},
     shape : [py : {"tuple"}, v : {<<>>, <<7>>}],
     description : {""},
     is_video : BOOLEAN]

FeatureToDict(f) ==
    [dtype |-> f.dtype, shape |-> [py |-> "list", v |-> f.shape.v],
     description |-> f.description, is_video |-> f.is_video]

FeatureFromDict(data) ==
    [dtype |-> data.dtype, shape |-> [py |-> "tuple", v |-> data.shape.v],
     description |-> data.description, is_video |-> data.is_video]

\* the catalogs TaskCatalog.add builds
RoundTripCatalogs ==
    {NewCatalog,
     [tasks |-> ("pick" :> 0), reverse |-> (0 :> "pick"), next_id |-> 1],
     [tasks |-> ("pick" :> 0) @@ ("place" :> 1),
      reverse |-> (0 :> "pick") @@ (1 :> "place"), next_id |-> 2]}

\* TaskCatalog.to_dict
TaskCatalogToDict(c) == [tasks |-> c.tasks, next_id |-> c.next_id]

\* TaskCatalog.from_dict: _reverse is _tasks inverted, the later item of the
\* dict winning an id that occurs twice
TaskCatalogFromDict(data) ==
    LET ids == {data.tasks[t] : t \in DOMAIN data.tasks}
    IN  [tasks |-> data.tasks,
         reverse |-> [id \in ids |->
                         CHOOSE t \in DOMAIN data.tasks : data.tasks[t] = id],
         next_id |-> data.next_id]

RoundTripSpecs ==
    [dataset_id : {"ds"}, dataset_name : {"Test"},
     observation_schema :
         UNION {[keys -> FeatureSpecs] : keys \in SUBSET {"observation.state"}},
     action_schema : {<<>>} \cup {<<f>> : f \in FeatureSpecs},
     control_rate_hz : {0, 10},
     action_space_type : {"custom"},
     camera_names : {<<>>, <<"front">>},
     canonical_camera : {<<>>, <<"front">>},
     task_catalog : RoundTripCatalogs,
     source_uri : {""}, build_id : {""},
     transform_pipeline : {<<>>, <<"TaskTextTransform", "SelectCameraTransform">>},
     edk_schema_version : {"1.0.0"},
     extra_metadata : {<<>>}]

\* DatasetSpec.to_dict
SpecToDict(spec) ==
    [spec EXCEPT
        !.observation_schema =
            [key \in DOMAIN spec.observation_schema |->
                FeatureToDict(spec.observation_schema[key])],
        !.action_schema =
            IF spec.action_schema # <<>>
            THEN <<FeatureToDict(spec.action_schema[1])>> ELSE <<>>,
        !.task_catalog = TaskCatalogToDict(spec.task_catalog)]

\* DatasetSpec.from_dict
SpecFromDict(data) ==
    [data EXCEPT
        !.observation_schema =
            [key \in DOMAIN data.observation_schema |->
                FeatureFromDict(data.observation_schema[key])],
        !.action_schema =
            IF data.action_schema # <<>>
            THEN <<FeatureFromDict(data.action_schema[1])>> ELSE <<>>,
        !.task_catalog = TaskCatalogFromDict(data.task_catalog)]

InitRoundTrip ==
    /\ CompilerIdle
    /\ WriterIdle
    /\ VerifyIdle
    /\ FinalizerIdle
    /\ CatalogIdle
    /\ StatsIdle
    /\ QueryIdle
    /\ SlicerIdle
    /\ RunnerIdle
    /\ QualityIdle
    /\ PipelineIdle
    /\ rt_original = Nothing
    /\ rt_dict = Nothing
    /\ rt_restored = Nothing
    /\ AccumulatorIdle
    /\ SplitIdle
    /\ VideoIdle
    /\ ResampleIdle
    /\ ContextIdle

StepToDictCall ==
    /\ rt_original = Nothing
    /\ \E step \in RoundTripSteps :
        /\ rt_original' = [kind |-> "Step", v |-> step]
        /\ rt_dict' = [kind |-> "Step", v |-> StepToDict(step)]
    /\ UNCHANGED <<rt_restored, exceptRoundTrip>>

StepFromDictCall ==
    /\ rt_dict.kind = "Step"
    /\ rt_restored = Nothing
    /\ rt_restored' = [kind |-> "Step", v |-> StepFromDict(rt_dict.v)]
    /\ UNCHANGED <<rt_original, rt_dict, exceptRoundTrip>>

EpisodeToDictCall ==
    /\ rt_original = Nothing
    /\ \E e \in RoundTripEpisodes :
        /\ rt_original' = [kind |-> "Episode", v |-> e]
        /\ rt_dict' = [kind |-> "Episode", v |-> EpisodeToDict(e)]
    /\ UNCHANGED <<rt_restored, exceptRoundTrip>>

EpisodeFromDictCall ==
    /\ rt_dict.kind = "Episode"
    /\ rt_restored = Nothing
    /\ LET out == EpisodeFromDict(rt_dict.v)
       IN  rt_restored' = IF out.raised THEN [kind |-> "raised"]
                          ELSE [kind |-> "Episode", v |-> out.episode]
    /\ UNCHANGED <<rt_original, rt_dict, exceptRoundTrip>>

SpecToDictCall ==
    /\ rt_original = Nothing
    /\ \E spec \in RoundTripSpecs :
        /\ rt_original' = [kind |-> "DatasetSpec", v |-> spec]
        /\ rt_dict' = [kind |-> "DatasetSpec", v |-> SpecToDict(spec)]
    /\ UNCHANGED <<rt_restored, exceptRoundTrip>>

SpecFromDictCall ==
    /\ rt_dict.kind = "DatasetSpec"
    /\ rt_restored = Nothing
    /\ rt_restored' = [kind |-> "DatasetSpec", v |-> SpecFromDict(rt_dict.v)]
    /\ UNCHANGED <<rt_original, rt_dict, exceptRoundTrip>>

NextRoundTrip ==
    \/ StepToDictCall
    \/ StepFromDictCall
    \/ EpisodeToDictCall
    \/ EpisodeFromDictCall
    \/ SpecToDictCall
    \/ SpecFromDictCall

SpecRoundTrip == InitRoundTrip /\ [][NextRoundTrip]_vars

\* C26: the object from_dict builds from an object's to_dict equals the
\* object field by field, for Step, Episode and DatasetSpec.
C26_RoundTripEqual ==
    rt_restored # Nothing =>
        /\ rt_restored.kind = rt_original.kind
        /\ rt_restored.v = rt_original.v

\* ---------------------------------------------------------------------------
\* StatsAccumulator (schema/stats.py)
\* ---------------------------------------------------------------------------

\* add calls made on one accumulator
MaxAccAdds == 3

AccKeys == {"action", "observation.state"}

\* the flattened values: vectors of one length
AccValues == [1..2 -> {-1, 2, 3}]

Minimum(a, b) == [i \in 1..Len(a) |-> IF a[i] <= b[i] THEN a[i] ELSE b[i]]

Maximum(a, b) == [i \in 1..Len(a) |-> IF a[i] >= b[i] THEN a[i] ELSE b[i]]

\* a dict with one item set
Put(dict, key, value) ==
    [k \in DOMAIN dict \cup {key} |-> IF k = key THEN value ELSE dict[k]]

\* add that takes a key's min from its first value only
AccumulatorAddFirstMin(a, key, flat) ==
    LET fresh == key \notin DOMAIN a.count
    IN  [count |-> Put(a.count, key, IF fresh THEN 1 ELSE a.count[key] + 1),
         sum |-> Put(a.sum, key,
                     IF fresh THEN flat
                     ELSE [i \in 1..Len(flat) |-> a.sum[key][i] + flat[i]]),
         sum_sq |-> Put(a.sum_sq, key,
                     IF fresh THEN [i \in 1..Len(flat) |-> flat[i] * flat[i]]
                     ELSE [i \in 1..Len(flat) |->
                              a.sum_sq[key][i] + flat[i] * flat[i]]),
         min |-> Put(a.min, key, IF fresh THEN flat ELSE a.min[key]),
         max |-> Put(a.max, key,
                     IF fresh THEN flat ELSE Maximum(a.max[key], flat))]

\* StatsAccumulator.add: a new key starts from count 0, zero sums and
\* min +inf, max -inf, so its first value is its sum, min and max
AccumulatorAdd(a, key, flat) ==
    LET fresh == key \notin DOMAIN a.count
    IN  [count |-> Put(a.count, key, IF fresh THEN 1 ELSE a.count[key] + 1),
         sum |-> Put(a.sum, key,
                     IF fresh THEN flat
                     ELSE [i \in 1..Len(flat) |-> a.sum[key][i] + flat[i]]),
         sum_sq |-> Put(a.sum_sq, key,
                     IF fresh THEN [i \in 1..Len(flat) |-> flat[i] * flat[i]]
                     ELSE [i \in 1..Len(flat) |->
                              a.sum_sq[key][i] + flat[i] * flat[i]]),
         min |-> Put(a.min, key,
                     IF fresh THEN flat ELSE Minimum(a.min[key], flat)),
         max |-> Put(a.max, key,
                     IF fresh THEN flat ELSE Maximum(a.max[key], flat))]

\* StatsAccumulator.compute: a mean is the fraction sum / n; the variance
\* sum_sq / n - mean ** 2, floored at 0, is the fraction over n * n whose
\* root is std
AccumulatorCompute(a) ==
    [key \in DOMAIN a.count |->
        LET n == a.count[key]
        IN  [mean |-> [i \in 1..Len(a.sum[key]) |->
                          [num |-> a.sum[key][i], den |-> n]],
             variance |-> [i \in 1..Len(a.sum[key]) |->
                 LET v == n * a.sum_sq[key][i] - a.sum[key][i] * a.sum[key][i]
                 IN  [num |-> IF v > 0 THEN v ELSE 0, den |-> n * n]],
             min |-> a.min[key],
             max |-> a.max[key],
             count |-> n]]

InitAccumulator ==
    /\ CompilerIdle
    /\ WriterIdle
    /\ VerifyIdle
    /\ FinalizerIdle
    /\ CatalogIdle
    /\ StatsIdle
    /\ QueryIdle
    /\ SlicerIdle
    /\ RunnerIdle
    /\ QualityIdle
    /\ PipelineIdle
    /\ RoundTripIdle
    /\ acc = NewAccumulator
    /\ acc_log = <<>>
    /\ acc_stats = <<>>
    /\ SplitIdle
    /\ VideoIdle
    /\ ResampleIdle
    /\ ContextIdle

AccAdd ==
    /\ Len(acc_log) < MaxAccAdds
    /\ \E key \in AccKeys, value \in AccValues :
        /\ acc' = AccumulatorAdd(acc, key, value)
        /\ acc_log' = Append(acc_log, [key |-> key, value |-> value])
    /\ UNCHANGED <<acc_stats, exceptAccumulator>>

AccCompute ==
    /\ acc_stats' = AccumulatorCompute(acc)
    /\ UNCHANGED <<acc, acc_log, exceptAccumulator>>

NextAccumulator == AccAdd \/ AccCompute

SpecAccumulator == InitAccumulator /\ [][NextAccumulator]_vars

\* the add calls made for a key
CallsFor(log, key) == {i \in 1..Len(log) : log[i].key = key}

RECURSIVE TotalAt(_, _, _)
TotalAt(log, calls, i) ==
    IF calls = {} THEN 0
    ELSE LET c == CHOOSE x \in calls : TRUE
         IN  log[c].value[i] + TotalAt(log, calls \ {c}, i)

\* C27: what compute returns holds, for each key added, the number of add
\* calls for the key as count, the element-wise sum over that count as mean,
\* and the element-wise least and greatest added value as min and max; the
\* calls for other keys do not enter.
C27_ComputeMatchesAdds ==
    [][acc_stats' # acc_stats =>
        /\ DOMAIN acc_stats' = {acc_log[i].key : i \in 1..Len(acc_log)}
        /\ \A key \in DOMAIN acc_stats' :
            LET calls == CallsFor(acc_log, key)
                s == acc_stats'[key]
            IN  /\ s.count = Cardinality(calls)
                /\ \A i \in 1..Len(s.mean) :
                    /\ s.mean[i].num = TotalAt(acc_log, calls, i)
                    /\ s.mean[i].den = Cardinality(calls)
                    /\ \A c \in calls : s.min[i] <= acc_log[c].value[i]
                    /\ \E c \in calls : s.min[i] = acc_log[c].value[i]
                    /\ \A c \in calls : s.max[i] >= acc_log[c].value[i]
                    /\ \E c \in calls : s.max[i] = acc_log[c].value[i]
      ]_vars

\* compute after two adds for "action", the second with a smaller first
\* element, and one add for another key
C27_Witness ==
    /\ Len(acc_log) = 3
    /\ DOMAIN acc_stats = AccKeys
    /\ acc_stats["action"].count = 2
    /\ acc_stats["action"].mean[1] = [num |-> 1, den |-> 2]
    /\ acc_stats["action"].min[1] = -1
    /\ acc_stats["action"].max[1] = 2
    /\ acc_log[1] = [key |-> "action", value |-> <<2, 3>>]

\* ---------------------------------------------------------------------------
\* deterministic_split (index/splits.py)
\* ---------------------------------------------------------------------------

\* calls of deterministic_split in one process
MaxSplitCalls == 3

SplitEpisodeIds == {"ep0", "ep1"}
SplitSeeds == {7, 42}

\* (train_ratio, val_ratio) in tenths: the defaults 0.8 and 0.1, and 0.5, 0.3
SplitRatios == {<<8, 1>>, <<5, 3>>}

\* int(h[:8], 16) / 0xFFFFFFFF in tenths, as far as the ratios tell it apart
Buckets == {0, 6, 8, 9}

SplitArgs ==
    [episode_id : SplitEpisodeIds, ratios : SplitRatios, seed : SplitSeeds]

\* a split that goes by how many episodes were split before
SplitByPosition(episode_id, train_ratio, val_ratio, seed) ==
    IF Len(sp_log) % 2 = 0 THEN "train" ELSE "test"

\* deterministic_split; md5 is a fixed function of the string it hashes
DeterministicSplit(episode_id, train_ratio, val_ratio, seed) ==
    LET bucket == sp_md5[<<seed, episode_id>>]
    IN  IF bucket < train_ratio THEN "train"
        ELSE IF bucket < train_ratio + val_ratio THEN "val"
        ELSE "test"

InitSplit ==
    /\ CompilerIdle
    /\ WriterIdle
    /\ VerifyIdle
    /\ FinalizerIdle
    /\ CatalogIdle
    /\ StatsIdle
    /\ QueryIdle
    /\ SlicerIdle
    /\ RunnerIdle
    /\ QualityIdle
    /\ PipelineIdle
    /\ RoundTripIdle
    /\ AccumulatorIdle
    /\ sp_md5 \in [SplitSeeds \X SplitEpisodeIds -> Buckets]
    /\ sp_log = <<>>
    /\ VideoIdle
    /\ ResampleIdle
    /\ ContextIdle

\* one call, for any episode and in any order, repeated or not
SplitCall ==
    /\ Len(sp_log) < MaxSplitCalls
    /\ \E args \in SplitArgs :
        sp_log' = Append(sp_log,
            [args |-> args,
             split |-> DeterministicSplit(args.episode_id, args.ratios[1],
                                          args.ratios[2], args.seed)])
    /\ UNCHANGED <<sp_md5, exceptSplit>>

NextSplit == SplitCall

SpecSplit == InitSplit /\ [][NextSplit]_vars

MaxFramesPerShard == 2  \* max_frames_per_shard ranges over 1..MaxFramesPerShard
MaxFrames == 2          \* an episode has at most MaxFrames frames
MaxVideoCalls == 3      \* write_episode_frames calls of one writer at most

\* frame k of the episode passed by call number c
Frame(c, k) == [call |-> c, k |-> k]

\* VideoOffset(video_file, start_frame, num_frames): video_file is <<i>> for
\* {camera_name}_{i:03d}.mp4 and <<>> for the empty string
VideoOffset(video_file, start_frame, num_frames) ==
    [video_file |-> video_file, start_frame |-> start_frame,
     num_frames |-> num_frames]

\* mutant: the frame counter of the previous shard is carried over
StartNewShardKeepsCount(files, started, idx, count) ==
    [files |-> IF idx + 1 <= Len(files)
                 THEN [files EXCEPT ![idx + 1] = <<>>]
                 ELSE Append(files, <<>>),
     started |-> Append(started, idx),
     count |-> count]

\* VideoShardWriter._start_new_shard: a VideoEncoder is started on the path
\* of shard idx (ffmpeg -y creates the file or replaces its content) and
\* _shard_frame_count is reset
StartNewShard(files, started, idx, count) ==
    [files |-> IF idx + 1 <= Len(files)
                 THEN [files EXCEPT ![idx + 1] = <<>>]
                 ELSE Append(files, <<>>),
     started |-> Append(started, idx),
     count |-> 0]

InitVideo ==
    /\ CompilerIdle
    /\ WriterIdle
    /\ VerifyIdle
    /\ FinalizerIdle
    /\ CatalogIdle
    /\ StatsIdle
    /\ QueryIdle
    /\ SlicerIdle
    /\ RunnerIdle
    /\ QualityIdle
    /\ PipelineIdle
    /\ RoundTripIdle
    /\ AccumulatorIdle
    /\ SplitIdle
    /\ vs_max \in 1..MaxFramesPerShard
    /\ vs_shard_idx = 0
    /\ vs_encoder = <<>>
    /\ vs_count = 0
    /\ vs_offsets = <<>>
    /\ vs_files = <<>>
    /\ vs_started = <<>>
    /\ vs_finished = 0
    /\ ResampleIdle
    /\ ContextIdle

\* VideoShardWriter.write_episode_frames(episode_id, frames) for a fresh
\* episode_id and n frames
WriteEpisodeFrames ==
    /\ Len(vs_offsets) < MaxVideoCalls
    /\ \E n \in 0..MaxFrames :
          LET c == Len(vs_offsets) + 1
              rotate == vs_encoder = <<>> \/ vs_count + n > vs_max
              idx == IF rotate /\ vs_encoder # <<>>
                       THEN vs_shard_idx + 1 ELSE vs_shard_idx
              shard == IF rotate
                         THEN StartNewShard(vs_files, vs_started, idx, vs_count)
                         ELSE [files |-> vs_files, started |-> vs_started,
                               count |-> vs_count]
          IN IF n = 0
               THEN /\ vs_offsets' = Append(vs_offsets, VideoOffset(<<>>, 0, 0))
                    /\ UNCHANGED <<vs_shard_idx, vs_encoder, vs_count, vs_files,
                                   vs_started>>
               ELSE /\ vs_shard_idx' = idx
                    /\ vs_encoder' = <<idx>>
                    /\ vs_started' = shard.started
                    /\ vs_files' = [shard.files EXCEPT ![idx + 1] =
                                      @ \o [k \in 1..n |-> Frame(c, k)]]
                    /\ vs_count' = shard.count + n
                    /\ vs_offsets' = Append(vs_offsets,
                                            VideoOffset(<<idx>>, shard.count, n))
    /\ UNCHANGED <<vs_max, vs_finished>>
    /\ UNCHANGED exceptVideo

\* VideoShardWriter.finish: the encoder is finished and dropped
VideoFinish ==
    /\ vs_finished < MaxVideoCalls
    /\ vs_encoder' = <<>>
    /\ vs_finished' = vs_finished + 1
    /\ UNCHANGED <<vs_max, vs_shard_idx, vs_count, vs_offsets, vs_files, vs_started>>
    /\ UNCHANGED exceptVideo

NextVideo ==
    \/ WriteEpisodeFrames
    \/ VideoFinish

SpecVideo == InitVideo /\ [][NextVideo]_vars

\* the calls, in call order, whose locator names shard i
CallsIn(i) == {c \in 1..Len(vs_offsets) : vs_offsets[c].video_file = <<i>>}

\* the frames recorded before call c in the shard its locator names
FramesBefore(c) ==
    LET earlier == {d \in CallsIn(vs_offsets[c].video_file[1]) : d < c}
        RECURSIVE Total(_)
        Total(S) == IF S = {} THEN 0
                    ELSE LET d == CHOOSE x \in S : TRUE
                         IN vs_offsets[d].num_frames + Total(S \ {d})
    IN Total(earlier)

\* the locator of call c names one shard file that holds the call's frames,
\* all of them, at [start_frame, start_frame + num_frames)
LocatorHolds(c) ==
    LET off == vs_offsets[c]
        i == off.video_file[1]
    IN /\ i + 1 <= Len(vs_files)
       /\ off.start_frame + off.num_frames <= Len(vs_files[i + 1])
       /\ \A k \in 1..off.num_frames :
             vs_files[i + 1][off.start_frame + k] = Frame(c, k)

\* C33: in a sequence of write_episode_frames calls with non-empty frame
\* lists, every locator places all frames of its episode in one shard file,
\* and the ranges of the episodes of one shard follow each other from frame 0
\* in write order, without gap or overlap.
C33_LocatorsContiguous ==
    vs_finished = 0 =>
        \A c \in 1..Len(vs_offsets) :
            vs_offsets[c].num_frames > 0 =>
                /\ vs_offsets[c].video_file # <<>>
                /\ LocatorHolds(c)
                /\ vs_offsets[c].start_frame = FramesBefore(c)

\* three episodes were written without a finish call, two of them share a
\* shard and the third one started the next shard
C33_Witness ==
    /\ vs_finished = 0
    /\ Len(vs_offsets) = 3
    /\ \E c, d \in CallsIn(0) : c < d /\ vs_offsets[d].start_frame > 0
    /\ CallsIn(1) # {}

\* C34 as claimed: no shard file holds more than max_frames_per_shard frames.
C34_ShardWithinBudget ==
    \A i \in 1..Len(vs_files) : Len(vs_files[i]) <= vs_max

\* C35 as claimed: no shard path is started more than once, so the frames a
\* returned locator names stay in the file.
C35_ShardStartedOnce ==
    /\ \A i, j \in 1..Len(vs_started) : vs_started[i] = vs_started[j] => i = j
    /\ \A c \in 1..Len(vs_offsets) :
          vs_offsets[c].num_frames > 0 => LocatorHolds(c)

\* ==================================================== ResampleTransform
\* Timestamps are counted in ticks of 0.1 s, so that the fallback i * 0.1 of a
\* step without timestamp is tick i and the rates 10 Hz and 5 Hz are steps of
\* 1 and 2 ticks.
MaxResampleSteps == 3   \* steps of the episode passed in at most
MaxTick == 3            \* timestamps range over 0..MaxTick

TargetSteps == {1, 2}

\* Step: observation is the index of the source step it was taken from,
\* action is <<>> for None
ResampleStep(is_first, is_last, is_terminal, observation, action, timestamp) ==
    [is_first |-> is_first, is_last |-> is_last, is_terminal |-> is_terminal,
     observation |-> observation, action |-> action, timestamp |-> timestamp]

\* the episodes with one is_first step at index 0, one is_last step at the
\* final index and no action on it
ResampleInputs ==
    UNION {{[i \in 1..n |->
                ResampleStep(i = 1, i = n, (i = n) /\ term, i,
                             IF i = n THEN <<>> ELSE act[i], ts[i])] :
              ts \in [1..n -> 0..MaxTick], act \in [1..n -> {<<>>, <<1>>}],
              term \in BOOLEAN} : n \in 1..MaxResampleSteps}

Abs(x) == IF x < 0 THEN -x ELSE x

\* [s.timestamp or i * 0.1 for i, s in enumerate(episode.steps)]
TimestampsOf(steps) ==
    [i \in 1..Len(steps) |->
        IF steps[i].timestamp # 0 THEN steps[i].timestamp ELSE i - 1]

\* np.arange(start, stop, dt)
Arange(start, stop, dt) ==
    IF stop <= start THEN <<>>
    ELSE [k \in 1..((stop - start + dt - 1) \div dt) |-> start + (k - 1) * dt]

\* int(np.argmin(np.abs(timestamps - t))): the first index of the minimum
Argmin(timestamps, t) ==
    CHOOSE i \in 1..Len(timestamps) :
        /\ \A j \in 1..Len(timestamps) :
              Abs(timestamps[i] - t) <= Abs(timestamps[j] - t)
        /\ \A j \in 1..(i - 1) : Abs(timestamps[j] - t) > Abs(timestamps[i] - t)

\* ResampleTransform.transform_episode: the steps of the returned episode
ResampleEpisode(steps, dt) ==
    IF steps = <<>> THEN steps
    ELSE LET timestamps == TimestampsOf(steps)
             duration == timestamps[Len(steps)] - timestamps[1]
             target_ts == Arange(timestamps[1], timestamps[Len(steps)], dt)
         IN IF duration <= 0 \/ target_ts = <<>> THEN steps
            ELSE [k \in 1..Len(target_ts) |->
                    LET src == steps[Argmin(timestamps, target_ts[k])]
                    IN ResampleStep(k = 1,
                                    k = Len(target_ts),
                                    (k = Len(target_ts)) /\ steps[Len(steps)].is_terminal,
                                    src.observation, src.action, target_ts[k])]

InitResample ==
    /\ CompilerIdle
    /\ WriterIdle
    /\ VerifyIdle
    /\ FinalizerIdle
    /\ CatalogIdle
    /\ StatsIdle
    /\ QueryIdle
    /\ SlicerIdle
    /\ RunnerIdle
    /\ QualityIdle
    /\ PipelineIdle
    /\ RoundTripIdle
    /\ AccumulatorIdle
    /\ SplitIdle
    /\ VideoIdle
    /\ rs_steps \in ResampleInputs
    /\ rs_dt \in TargetSteps
    /\ rs_result = <<>>
    /\ rs_pc = "call"
    /\ ContextIdle

\* transform.transform_episode(episode, spec)
Resample ==
    /\ rs_pc = "call"
    /\ rs_result' = ResampleEpisode(rs_steps, rs_dt)
    /\ rs_pc' = "returned"
    /\ UNCHANGED <<rs_steps, rs_dt>>
    /\ UNCHANGED exceptResample

NextResample == Resample

SpecResample == InitResample /\ [][NextResample]_vars

\* C39 as claimed: the episode returned for a well-formed episode has exactly
\* one is_first step, at index 0, exactly one is_last step, at the final
\* index, and no action on the is_last step.
C39_ResampleKeepsWellFormed ==
    rs_pc = "returned" =>
        /\ WellFormed(rs_result)
        /\ rs_result[Len(rs_result)].action = <<>>

\* ============================================ BaseWriter as context manager
\* a LeRobotV3Writer about to be used in `with writer:`
InitWith ==
    /\ CompilerIdle
    /\ WriterInit
    /\ VerifyIdle
    /\ FinalizerIdle
    /\ CatalogIdle
    /\ StatsIdle
    /\ QueryIdle
    /\ SlicerIdle
    /\ RunnerIdle
    /\ QualityIdle
    /\ PipelineIdle
    /\ RoundTripIdle
    /\ AccumulatorIdle
    /\ SplitIdle
    /\ VideoIdle
    /\ ResampleIdle
    /\ cx_pc = "before"

\* BaseWriter.__enter__: return self
WriterEnter ==
    /\ cx_pc = "before"
    /\ cx_pc' = "inside"
    /\ UNCHANGED exceptContext

\* the calls made on the writer in the body of the block
WithBody ==
    /\ cx_pc = "inside"
    /\ \/ WriterBegin
       \/ WriteEpisode
       \/ WriterFinalize

\* BaseWriter.__exit__: the body is `pass`
WriterExit ==
    /\ cx_pc = "inside"
    /\ cx_pc' = "left"
    /\ UNCHANGED exceptContext

NextWith ==
    \/ WriterEnter
    \/ WithBody
    \/ WriterExit

SpecWith == InitWith /\ [][NextWith]_vars

\* C40 as claimed: once the block is left the writer has been finalized (by
\* the body or else by __exit__): the row buffer is flushed and the metadata
\* files are written.
C40_ExitFinalizes ==
    (cx_pc = "left" /\ wstate # "new") =>
        /\ wstate = "finalized"
        /\ step_buffer = <<>>
        /\ meta_files.info_exists
        /\ meta_files.tasks_exists

====
